---- MODULE Spec2Model ----
(***************************************************************************)
(* Reviewer-data aggregation pipeline of the peer-review graph viewer.     *)
(*                                                                         *)
(* JavaScript strings are modelled as sequences of one-character strings   *)
(* so that trim, toUpperCase and parseFloat are computed, not assumed.     *)
(* JavaScript numbers are modelled as exact rationals [n, d]; NaN is 0/0,   *)
(* Infinity is 1/0 and -Infinity is -1/0.                                  *)
(* A property that is undefined on a JavaScript object is a field that is  *)
(* missing from the record (tested with DOMAIN).                           *)
(* The Round property of an assignment record is the field Round when it   *)
(* is an array; a Round that is present and not an array (null, a string,  *)
(* a number, an object) is the field RoundNonArray, a value tagged with    *)
(* its kind, so that Array.isArray(Round) is the presence of Round.        *)
(***************************************************************************)
EXTENDS Integers, Sequences, FiniteSets, TLC

VARIABLES
    rawData,          \* the data set: homework key -> assignment records
    hwNames,          \* the hwNames argument of the graph functions
    mode,             \* the mode argument of the last generateGraph call
    assignments,      \* the array handed to calculateReviewerLabelAverages
    graph,            \* the {nodes, links} returned by processReviewerData
    networkInstance,  \* the data held by window.networkInstance
    returned,         \* the array calculateReviewerLabelAverages returned
    percentageStats,  \* the result of calculateHwLabelFrequency
    pc,               \* the function that ran last
    build,            \* which graph_3labelFunc.js the page loads
    container,        \* whether the element #review-graph exists
    clickHandlers,    \* the click handlers registered on window.networkInstance
    instanceCalls,    \* the calls the last render made on window.networkInstance
    constructions,    \* how many times new vis.Network has run
    bubbleData,       \* the result of prepareNetworkDataForBubbleChart
    clicked,          \* the last click on a node and what its handlers surfaced
    thrown,           \* the exception the last call threw, "none" if it returned
    roundsArg,        \* the rounds argument of getAvgLabelQuality
    avgLabelQuality,  \* the result of getAvgLabelQuality
    loggedError,      \* whether the last call wrote to console.error
    reviewerCanvas,   \* whether the element #reviewerChart exists
    reviewerCharts,   \* the charts drawReviewerChart has created
    fetchState,       \* the fetch of loadData: pending, ok, rejected or notOk
    currentMode,      \* the page's currentMode
    currentHW,        \* the page's currentHW
    hwOptions,        \* the options of the hw-select widget
    hwSelect,         \* the selected options of the hw-select widget
    activeButtons,    \* the indices of the .switch-btn buttons with class active
    alerted,          \* whether the last handler showed an alert
    bubbleChartManager, \* whether window.BubbleChartManager gave the page a manager
    callArgs,         \* the arguments of the last updateGraphMode call
    generateBtn,      \* chart -> the Generate button: disabled, textContent
    downloadBtn,      \* chart -> the Download button: disabled
    currentChart,     \* chart -> currentHwChart / currentHwValidChart
    inFlight,         \* chart -> the generations started and not yet finished
    savedFile         \* the file name of the last saveChartAsPNG call, "" before it

\* the state of the rendering layer
renderVars == <<build, container, clickHandlers, instanceCalls, constructions>>

\* the argument and the result of getAvgLabelQuality
qualityVars == <<roundsArg, avgLabelQuality>>

\* the state of the mode switch and of the homework selection
modeVars ==
    <<fetchState, currentMode, currentHW, hwOptions, hwSelect, activeButtons, alerted,
      bubbleChartManager, callArgs>>

\* the chart buttons of initHwLabelChartEvents
chartBtnVars == <<generateBtn, downloadBtn, currentChart, inFlight, savedFile>>

\* the state of the page around the graph
pageVars ==
    <<reviewerCanvas, reviewerCharts, fetchState, currentMode, currentHW, hwOptions,
      hwSelect, activeButtons, alerted, bubbleChartManager, callArgs, chartBtnVars>>

vars ==
    <<rawData, hwNames, mode, assignments, returned, graph, networkInstance,
      percentageStats, pc, renderVars, bubbleData, clicked, thrown, qualityVars,
      loggedError, pageVars>>

(***************************************************************************)
(* Bounds of the model.                                                    *)
(***************************************************************************)
\* records in the whole data set
MaxRecs == 2
\* rounds in the whole data set
MaxRounds == 2

\* rounds in one record of the link data
MaxRecordRounds == 3

\* rounds of the reviewer of the colour data
\* how many charts drawReviewerChart creates at most
MaxCharts == 2

\* how many generations of one chart the model lets run at a time
MaxInFlight == 2

MaxTierRounds == 4

Keys == {"HW1", "HW2"}

\* null, and a variable that holds nothing yet
None == <<>>

(***************************************************************************)
(* Numbers.                                                                *)
(***************************************************************************)
Abs(x) == IF x < 0 THEN -x ELSE x

RECURSIVE GCD(_, _)
GCD(a, b) == IF b = 0 THEN a ELSE GCD(b, a % b)

NaN == [n |-> 0, d |-> 0]

\* the number n/d in lowest terms with a positive denominator; 0/0 is NaN
Rat(n, d) ==
    IF d = 0 THEN [n |-> IF n > 0 THEN 1 ELSE IF n < 0 THEN -1 ELSE 0, d |-> 0]
    ELSE LET g == GCD(Abs(n), Abs(d))
             s == IF d < 0 THEN -1 ELSE 1
         IN  [n |-> s * (n \div g), d |-> s * (d \div g)]

Num(i) == [n |-> i, d |-> 1]

Infinity == [n |-> 1, d |-> 0]

NegInfinity == [n |-> -1, d |-> 0]

isNaN(x) == x.n = 0 /\ x.d = 0

IsInfinite(x) == x.d = 0 /\ x.n # 0

Sign(i) == IF i > 0 THEN 1 ELSE IF i < 0 THEN -1 ELSE 0

\* JavaScript x + y: an infinity absorbs a finite number, Infinity + -Infinity is NaN
RatAdd(x, y) ==
    IF isNaN(x) \/ isNaN(y) THEN NaN
    ELSE IF IsInfinite(x) /\ IsInfinite(y) THEN (IF x.n = y.n THEN x ELSE NaN)
    ELSE IF IsInfinite(x) THEN x
    ELSE IF IsInfinite(y) THEN y
    ELSE Rat(x.n * y.d + y.n * x.d, x.d * y.d)

\* JavaScript x - y
RatSub(x, y) == RatAdd(x, [n |-> -y.n, d |-> y.d])

\* JavaScript x * y: 0 * Infinity is NaN
RatMul(x, y) ==
    IF isNaN(x) \/ isNaN(y) THEN NaN
    ELSE IF IsInfinite(x) \/ IsInfinite(y)
         THEN [n |-> Sign(x.n) * Sign(y.n), d |-> 0]
    ELSE Rat(x.n * y.n, x.d * y.d)

\* JavaScript x / y: 0 / 0 and Infinity / Infinity are NaN, a finite number over
\* an infinity is 0
RatDiv(x, y) ==
    IF isNaN(x) \/ isNaN(y) THEN NaN
    ELSE IF IsInfinite(x) /\ IsInfinite(y) THEN NaN
    ELSE IF IsInfinite(x) THEN [n |-> x.n * (IF y.n < 0 THEN -1 ELSE 1), d |-> 0]
    ELSE IF IsInfinite(y) THEN Num(0)
    ELSE Rat(x.n * y.d, x.d * y.n)

\* x < y and x <= y; every comparison with NaN is false
RatLt(x, y) ==
    /\ ~isNaN(x) /\ ~isNaN(y)
    /\ IF IsInfinite(x) /\ IsInfinite(y) THEN x.n < y.n ELSE x.n * y.d < y.n * x.d

RatLe(x, y) ==
    /\ ~isNaN(x) /\ ~isNaN(y)
    /\ IF IsInfinite(x) /\ IsInfinite(y) THEN x.n <= y.n ELSE x.n * y.d <= y.n * x.d

\* Math.min and Math.max: NaN when an argument is NaN
MathMin(x, y) == IF isNaN(x) \/ isNaN(y) THEN NaN ELSE IF RatLt(y, x) THEN y ELSE x

MathMax(x, y) == IF isNaN(x) \/ isNaN(y) THEN NaN ELSE IF RatLt(x, y) THEN y ELSE x

(***************************************************************************)
(* Strings.                                                                *)
(***************************************************************************)
Str(s) == s

EmptyStr == <<>>

IsWhiteSpace(c) == c \in {" ", "\t"}

RECURSIVE TrimStart(_)
TrimStart(s) ==
    IF s # <<>> /\ IsWhiteSpace(Head(s)) THEN TrimStart(Tail(s)) ELSE s

RECURSIVE TrimEnd(_)
TrimEnd(s) ==
    IF s # <<>> /\ IsWhiteSpace(s[Len(s)]) THEN TrimEnd(SubSeq(s, 1, Len(s) - 1)) ELSE s

\* String.prototype.trim
trim(s) == TrimEnd(TrimStart(s))

UpperChar(c) ==
    CASE c = "a" -> "A"
      [] c = "b" -> "B"
      [] c = "c" -> "C"
      [] c = "k" -> "K"
      [] c = "l" -> "L"
      [] c = "n" -> "N"
      [] c = "o" -> "O"
      [] c = "u" -> "U"
      [] OTHER -> c

\* String.prototype.toUpperCase
toUpperCase(s) == [i \in 1..Len(s) |-> UpperChar(s[i])]

(***************************************************************************)
(* Reading fields of JavaScript objects.                                   *)
(***************************************************************************)
Has(o, f) == f \in DOMAIN o

\* o.f || dflt for a numeric field: undefined and 0 both give dflt
NumOr(o, f, dflt) == IF Has(o, f) /\ o[f] # 0 THEN o[f] ELSE dflt

\* o.f || "" for a string field
StrOr(o, f) == IF Has(o, f) THEN o[f] ELSE EmptyStr

\* Array.isArray(assignment.Round)
IsArrayRound(assignment) == Has(assignment, "Round")

(***************************************************************************)
(* processReviewerData                                                     *)
(***************************************************************************)
WEIGHTS == [relevance |-> 30, concreteness |-> 30, constructive |-> 40]

ScoreCap == 100

CompletedRounds == 3

NewNode(reviewerId) ==
    [id |-> reviewerId, totalRounds |-> 0, meaningfulScore |-> 0, feedbacks |-> <<>>,
     labelCounts |-> [relevance |-> 0, concreteness |-> 0, constructive |-> 0]]

\* NodeIndex with reviewer ids compared in upper case
NodeIndexUpper(nodes, reviewerId) ==
    IF \E i \in 1..Len(nodes) : toUpperCase(nodes[i].id) = toUpperCase(reviewerId)
    THEN CHOOSE i \in 1..Len(nodes) : toUpperCase(nodes[i].id) = toUpperCase(reviewerId)
    ELSE 0

\* index of the node of reviewerId in the insertion-ordered nodesMap, 0 if none
NodeIndex(nodes, reviewerId) ==
    IF \E i \in 1..Len(nodes) : nodes[i].id = reviewerId
    THEN CHOOSE i \in 1..Len(nodes) : nodes[i].id = reviewerId
    ELSE 0

\* FoldRound with the tally taken for every round, with or without feedback
FoldRoundAlwaysCount(node, round) ==
    LET feedback == trim(StrOr(round, "Feedback"))
        relevance == NumOr(round, "Relevance", 0)
        concreteness == NumOr(round, "Concreteness", 0)
        constructive == NumOr(round, "Constructive", 0)
        roundScore == relevance * WEIGHTS.relevance
                      + concreteness * WEIGHTS.concreteness
                      + constructive * WEIGHTS.constructive
    IN  [node EXCEPT !.feedbacks = Append(@, feedback),
                     !.meaningfulScore = @ + roundScore,
                     !.labelCounts = [relevance |-> @.relevance + relevance,
                                      concreteness |-> @.concreteness + concreteness,
                                      constructive |-> @.constructive + constructive]]

\* FoldRound with the feedback left untrimmed
FoldRoundNoTrim(node, round) ==
    LET feedback == StrOr(round, "Feedback")
        relevance == NumOr(round, "Relevance", 0)
        concreteness == NumOr(round, "Concreteness", 0)
        constructive == NumOr(round, "Constructive", 0)
        roundScore == relevance * WEIGHTS.relevance
                      + concreteness * WEIGHTS.concreteness
                      + constructive * WEIGHTS.constructive
        pushed == [node EXCEPT !.feedbacks = Append(@, feedback)]
    IN  IF feedback # EmptyStr
        THEN [pushed EXCEPT !.meaningfulScore = @ + roundScore,
                            !.labelCounts = [relevance |-> @.relevance + relevance,
                                             concreteness |-> @.concreteness + concreteness,
                                             constructive |-> @.constructive + constructive]]
        ELSE pushed

\* the body of rounds.forEach: one round folded into its reviewer's node
FoldRound(node, round) ==
    LET feedback == trim(StrOr(round, "Feedback"))
        relevance == NumOr(round, "Relevance", 0)
        concreteness == NumOr(round, "Concreteness", 0)
        constructive == NumOr(round, "Constructive", 0)
        roundScore == relevance * WEIGHTS.relevance
                      + concreteness * WEIGHTS.concreteness
                      + constructive * WEIGHTS.constructive
        pushed == [node EXCEPT !.feedbacks = Append(@, feedback)]
    IN  IF feedback # EmptyStr
        THEN [pushed EXCEPT !.meaningfulScore = @ + roundScore,
                            !.labelCounts = [relevance |-> @.relevance + relevance,
                                             concreteness |-> @.concreteness + concreteness,
                                             constructive |-> @.constructive + constructive]]
        ELSE pushed

RECURSIVE FoldRounds(_, _)
FoldRounds(node, rounds) ==
    IF rounds = <<>> THEN node
    ELSE FoldRounds(FoldRound(node, Head(rounds)), Tail(rounds))

\* FoldAssignment with totalRounds counting records instead of rounds
FoldAssignmentCountRecords(acc, hwName, assignment) ==
    LET authorId == assignment.Author
        reviewerId == assignment.Reviewer
        rounds == IF IsArrayRound(assignment) THEN assignment.Round ELSE <<>>
        nodes0 == IF NodeIndex(acc.nodes, reviewerId) = 0
                  THEN Append(acc.nodes, NewNode(reviewerId))
                  ELSE acc.nodes
        k == NodeIndex(nodes0, reviewerId)
        node == [nodes0[k] EXCEPT !.totalRounds = @ + 1]
    IN  [nodes |-> [nodes0 EXCEPT ![k] = FoldRounds(node, rounds)],
         links |-> Append(acc.links,
                          [from |-> reviewerId, to |-> authorId,
                           completedAll |-> Len(rounds) >= CompletedRounds,
                           hwName |-> hwName])]

\* FoldAssignment with a repeated reviewer-author pair giving no second link
FoldAssignmentMergePairs(acc, hwName, assignment) ==
    LET authorId == assignment.Author
        reviewerId == assignment.Reviewer
        rounds == IF IsArrayRound(assignment) THEN assignment.Round ELSE <<>>
        nodes0 == IF NodeIndex(acc.nodes, reviewerId) = 0
                  THEN Append(acc.nodes, NewNode(reviewerId))
                  ELSE acc.nodes
        k == NodeIndex(nodes0, reviewerId)
        node == [nodes0[k] EXCEPT !.totalRounds = @ + Len(rounds)]
        known == \E i \in 1..Len(acc.links) :
                    acc.links[i].from = reviewerId /\ acc.links[i].to = authorId
    IN  [nodes |-> [nodes0 EXCEPT ![k] = FoldRounds(node, rounds)],
         links |-> IF known THEN acc.links
                   ELSE Append(acc.links,
                               [from |-> reviewerId, to |-> authorId,
                                completedAll |-> Len(rounds) >= CompletedRounds,
                                hwName |-> hwName])]

\* FoldAssignment with completedAll asking for more than three rounds
FoldAssignmentStrictThreshold(acc, hwName, assignment) ==
    LET authorId == assignment.Author
        reviewerId == assignment.Reviewer
        rounds == IF IsArrayRound(assignment) THEN assignment.Round ELSE <<>>
        nodes0 == IF NodeIndex(acc.nodes, reviewerId) = 0
                  THEN Append(acc.nodes, NewNode(reviewerId))
                  ELSE acc.nodes
        k == NodeIndex(nodes0, reviewerId)
        node == [nodes0[k] EXCEPT !.totalRounds = @ + Len(rounds)]
    IN  [nodes |-> [nodes0 EXCEPT ![k] = FoldRounds(node, rounds)],
         links |-> Append(acc.links,
                          [from |-> reviewerId, to |-> authorId,
                           completedAll |-> Len(rounds) > CompletedRounds,
                           hwName |-> hwName])]

\* the body of hwAssignments.forEach: one record folded into nodesMap and links
FoldAssignment(acc, hwName, assignment) ==
    LET authorId == assignment.Author
        reviewerId == assignment.Reviewer
        rounds == IF IsArrayRound(assignment) THEN assignment.Round ELSE <<>>
        nodes0 == IF NodeIndex(acc.nodes, reviewerId) = 0
                  THEN Append(acc.nodes, NewNode(reviewerId))
                  ELSE acc.nodes
        k == NodeIndex(nodes0, reviewerId)
        node == [nodes0[k] EXCEPT !.totalRounds = @ + Len(rounds)]
    IN  [nodes |-> [nodes0 EXCEPT ![k] = FoldRounds(node, rounds)],
         links |-> Append(acc.links,
                          [from |-> reviewerId, to |-> authorId,
                           completedAll |-> Len(rounds) >= CompletedRounds,
                           hwName |-> hwName])]

RECURSIVE FoldAssignments(_, _, _)
FoldAssignments(acc, hwName, hwAssignments) ==
    IF hwAssignments = <<>> THEN acc
    ELSE FoldAssignments(FoldAssignment(acc, hwName, Head(hwAssignments)),
                         hwName, Tail(hwAssignments))

\* rawData[hwName] || []
HwAssignments(data, hwName) == IF hwName \in DOMAIN data THEN data[hwName] ELSE <<>>

RECURSIVE FoldHwNames(_, _, _)
FoldHwNames(acc, data, names) ==
    IF names = <<>> THEN acc
    ELSE FoldHwNames(FoldAssignments(acc, Head(names), HwAssignments(data, Head(names))),
                     data, Tail(names))

\* HwList with an empty selection falling back to the default ['HW1']
HwListDefault(names) ==
    IF names.type = "string" THEN <<names.v>>
    ELSE IF names.v = <<>> THEN <<"HW1">> ELSE names.v

\* if (typeof hwNames === 'string') hwNames = [hwNames]
HwList(names) == IF names.type = "string" THEN <<names.v>> ELSE names.v

IsNonEmptyFeedback(fb) == fb # EmptyStr

\* feedbacks.filter(fb => fb !== "").length
NonEmptyCount(feedbacks) ==
    Cardinality({i \in 1..Len(feedbacks) : IsNonEmptyFeedback(feedbacks[i])})

\* FinalizeNode with the summed round scores neither averaged nor capped
FinalizeNodeRawSum(node) ==
    [id |-> node.id, totalRounds |-> node.totalRounds,
     feedbacks |-> node.feedbacks, labelCounts |-> node.labelCounts,
     meaningfulScore |-> Num(node.meaningfulScore),
     isFeedbackEmpty |-> \A i \in 1..Len(node.feedbacks) : node.feedbacks[i] = EmptyStr]

\* the final map over nodesMap.values()
FinalizeNode(node) ==
    LET validRounds == NonEmptyCount(node.feedbacks)
        avgScore == IF validRounds > 0
                    THEN RatDiv(Num(node.meaningfulScore), Num(validRounds))
                    ELSE Num(0)
    IN  [id |-> node.id, totalRounds |-> node.totalRounds,
         feedbacks |-> node.feedbacks, labelCounts |-> node.labelCounts,
         meaningfulScore |-> MathMin(avgScore, Num(ScoreCap)),
         isFeedbackEmpty |-> \A i \in 1..Len(node.feedbacks) : node.feedbacks[i] = EmptyStr]

\* the mode argument m is accepted and never read
processReviewerData(data, m, names) ==
    LET folded == FoldHwNames([nodes |-> <<>>, links |-> <<>>], data, HwList(names))
    IN  [nodes |-> [i \in 1..Len(folded.nodes) |-> FinalizeNode(folded.nodes[i])],
         links |-> folded.links]

(***************************************************************************)
(* calculateReviewerLabelAverages                                          *)
(***************************************************************************)
IsDigit(c) == c \in {"0", "1", "2", "3", "4", "5", "6", "7", "8", "9"}

DigitValue(c) ==
    CASE c = "0" -> 0 [] c = "1" -> 1 [] c = "2" -> 2 [] c = "3" -> 3 [] c = "4" -> 4
      [] c = "5" -> 5 [] c = "6" -> 6 [] c = "7" -> 7 [] c = "8" -> 8 [] c = "9" -> 9

\* the longest prefix of s made of digits
RECURSIVE TakeDigits(_)
TakeDigits(s) ==
    IF s # <<>> /\ IsDigit(Head(s)) THEN <<Head(s)>> \o TakeDigits(Tail(s)) ELSE <<>>

RECURSIVE DigitsValue(_)
DigitsValue(ds) ==
    IF ds = <<>> THEN 0 ELSE 10 * DigitsValue(SubSeq(ds, 1, Len(ds) - 1)) + DigitValue(ds[Len(ds)])

RECURSIVE Pow10(_)
Pow10(k) == IF k = 0 THEN 1 ELSE 10 * Pow10(k - 1)

InfinityWord == <<"I", "n", "f", "i", "n", "i", "t", "y">>

\* parseFloat of a string of white space, signs, digits, "." and letters (no
\* exponent): leading white space is skipped, then the longest prefix that is a
\* decimal number or the word Infinity counts; NaN when there is none
parseFloatStr(s) ==
    LET t == TrimStart(s)
        signed == t # <<>> /\ Head(t) \in {"-", "+"}
        sign == IF signed /\ Head(t) = "-" THEN -1 ELSE 1
        body == IF signed THEN Tail(t) ELSE t
        int == TakeDigits(body)
        rest == SubSeq(body, Len(int) + 1, Len(body))
        frac == IF rest # <<>> /\ Head(rest) = "." THEN TakeDigits(Tail(rest)) ELSE <<>>
    IN  IF Len(body) >= Len(InfinityWord)
           /\ SubSeq(body, 1, Len(InfinityWord)) = InfinityWord
        THEN [n |-> sign, d |-> 0]
        ELSE IF int = <<>> /\ frac = <<>> THEN NaN
        ELSE Rat(sign * (DigitsValue(int) * Pow10(Len(frac)) + DigitsValue(frac)),
                 Pow10(Len(frac)))

\* parseFloat(round.Label); an undefined Label parses to NaN
parseFloat(round) == IF Has(round, "Label") THEN parseFloatStr(round.Label) ELSE NaN

\* ReviewerKey without trim and toUpperCase
ReviewerKeyRaw(assignment) ==
    IF Has(assignment, "Reviewer") THEN assignment.Reviewer ELSE <<"undefined">>

\* assignment.Reviewer?.trim().toUpperCase(); undefined as an object key
ReviewerKey(assignment) ==
    IF Has(assignment, "Reviewer") THEN toUpperCase(trim(assignment.Reviewer))
    ELSE <<"undefined">>

\* the body of rounds.forEach of the first pass
AddLabel(stat, round) ==
    LET label == parseFloat(round)
    IN  IF ~isNaN(label)
        THEN [totalLabel |-> RatAdd(stat.totalLabel, label), count |-> stat.count + 1]
        ELSE stat

RECURSIVE AddLabels(_, _)
AddLabels(stat, rounds) ==
    IF rounds = <<>> THEN stat ELSE AddLabels(AddLabel(stat, Head(rounds)), Tail(rounds))

\* the body of assignments.forEach of the first pass
AddAssignment(reviewerStats, assignment) ==
    LET reviewer == ReviewerKey(assignment)
        started == IF reviewer \in DOMAIN reviewerStats THEN reviewerStats
                   ELSE reviewerStats @@ (reviewer :> [totalLabel |-> Num(0), count |-> 0])
    IN  IF ~IsArrayRound(assignment) THEN reviewerStats
        ELSE [started EXCEPT ![reviewer] = AddLabels(@, assignment.Round)]

RECURSIVE ReviewerStats(_, _)
ReviewerStats(reviewerStats, as) ==
    IF as = <<>> THEN reviewerStats
    ELSE ReviewerStats(AddAssignment(reviewerStats, Head(as)), Tail(as))

\* AvgLabel with 0 in place of NaN for a reviewer without parseable labels
AvgLabelZero(reviewerStats, reviewer) ==
    IF reviewer \in DOMAIN reviewerStats /\ reviewerStats[reviewer].count > 0
    THEN RatDiv(reviewerStats[reviewer].totalLabel, Num(reviewerStats[reviewer].count))
    ELSE Num(0)

\* the avgLabel the second pass writes for the reviewer key
AvgLabel(reviewerStats, reviewer) ==
    IF reviewer \in DOMAIN reviewerStats /\ reviewerStats[reviewer].count > 0
    THEN RatDiv(reviewerStats[reviewer].totalLabel, Num(reviewerStats[reviewer].count))
    ELSE NaN

calculateReviewerLabelAverages(as) ==
    LET reviewerStats == ReviewerStats(<<>>, as)
    IN  [i \in 1..Len(as) |->
            [f \in DOMAIN as[i] \cup {"avgLabel"} |->
                IF f = "avgLabel" THEN AvgLabel(reviewerStats, ReviewerKey(as[i]))
                ELSE as[i][f]]]

(***************************************************************************)
(* getAvgLabelQuality: its argument is a value tagged with its kind, an    *)
(* array being [kind |-> "array", v |-> the rounds].                       *)
(***************************************************************************)
\* r.Feedback && r.Feedback.trim() !== ""
HasValidFeedback(r) ==
    Has(r, "Feedback") /\ r.Feedback # EmptyStr /\ trim(r.Feedback) # EmptyStr

\* parseFloat(r.Label) || 0: NaN and 0 give 0
LabelOrZero(r) == IF isNaN(parseFloat(r)) THEN Num(0) ELSE parseFloat(r)

\* validFeedbacks.reduce((sum, r) => sum + (parseFloat(r.Label) || 0), 0)
RECURSIVE TotalLabel(_, _)
TotalLabel(sum, validFeedbacks) ==
    IF validFeedbacks = <<>> THEN sum
    ELSE TotalLabel(RatAdd(sum, LabelOrZero(Head(validFeedbacks))), Tail(validFeedbacks))

getAvgLabelQuality(rs) ==
    IF rs.kind # "array" \/ Len(rs.v) = 0 THEN Num(0)
    ELSE LET validFeedbacks == SelectSeq(rs.v, HasValidFeedback)
             totalLabel == TotalLabel(Num(0), validFeedbacks)
             avgLabelQuality0 == RatDiv(totalLabel, Num(Len(validFeedbacks)))
         IN  IF Len(validFeedbacks) = 0 THEN Num(0)
             ELSE MathMax(Num(0), MathMin(Num(1), avgLabelQuality0))

(***************************************************************************)
(* generateGraph                                                           *)
(***************************************************************************)
SizeBase == 15

SizeSpan == 35

sizeScale(rate) == RatAdd(Num(SizeBase), RatMul(rate, Num(SizeSpan)))

colorConfig ==
    [relevance |-> <<"#FFEEB7", "#FFD753", "#F1BC0D", "#D4A302">>,
     concreteness |-> <<"#CFFFCA", "#95ED65", "#54AF23", "#327111">>,
     constructive |-> <<"#F1DCFF", "#C78EED", "#9444CA", "#590A8E">>,
     all |-> <<"#F0F0F0", "#E0E0E0", "#757575", "#424242">>]

\* CompletionRate with a node without rounds counted as complete
CompletionRateFull(n) ==
    LET assignmentCount == Len(n.feedbacks)
        completedAssignments == NonEmptyCount(n.feedbacks)
    IN  IF assignmentCount > 0
        THEN RatDiv(Num(completedAssignments), Num(assignmentCount))
        ELSE Num(1)

\* completedAssignments / assignmentCount of a node, 0 for a node without rounds
CompletionRate(n) ==
    LET assignmentCount == Len(n.feedbacks)
        completedAssignments == NonEmptyCount(n.feedbacks)
    IN  IF assignmentCount > 0
        THEN RatDiv(Num(completedAssignments), Num(assignmentCount))
        ELSE Num(0)

\* Score with every single-label mode reading the relevance count
ScoreRelevanceOnly(n, m) ==
    LET totalFeedbacks == NonEmptyCount(n.feedbacks)
    IN  IF m = "all"
        THEN IF totalFeedbacks > 0
             THEN RatDiv(RatAdd(RatAdd(RatDiv(Num(n.labelCounts.relevance), Num(totalFeedbacks)),
                                       RatDiv(Num(n.labelCounts.concreteness), Num(totalFeedbacks))),
                                RatDiv(Num(n.labelCounts.constructive), Num(totalFeedbacks))),
                         Num(3))
             ELSE Num(0)
        ELSE IF totalFeedbacks > 0
             THEN RatDiv(Num(n.labelCounts.relevance), Num(totalFeedbacks))
             ELSE Num(0)

\* Score with the three rates of mode all summed and not averaged
ScoreSumOfRates(n, m) ==
    LET totalFeedbacks == NonEmptyCount(n.feedbacks)
    IN  IF m = "all"
        THEN IF totalFeedbacks > 0
             THEN RatAdd(RatAdd(RatDiv(Num(n.labelCounts.relevance), Num(totalFeedbacks)),
                                RatDiv(Num(n.labelCounts.concreteness), Num(totalFeedbacks))),
                         RatDiv(Num(n.labelCounts.constructive), Num(totalFeedbacks)))
             ELSE Num(0)
        ELSE IF totalFeedbacks > 0
             THEN RatDiv(Num(n.labelCounts[m]), Num(totalFeedbacks))
             ELSE Num(0)

\* the score that colours a node in mode m
Score(n, m) ==
    LET totalFeedbacks == NonEmptyCount(n.feedbacks)
    IN  IF m = "all"
        THEN IF totalFeedbacks > 0
             THEN LET relevanceScore == RatDiv(Num(n.labelCounts.relevance), Num(totalFeedbacks))
                      concretenessScore ==
                          RatDiv(Num(n.labelCounts.concreteness), Num(totalFeedbacks))
                      constructiveScore ==
                          RatDiv(Num(n.labelCounts.constructive), Num(totalFeedbacks))
                  IN  RatDiv(RatAdd(RatAdd(relevanceScore, concretenessScore),
                                    constructiveScore), Num(3))
             ELSE Num(0)
        ELSE IF totalFeedbacks > 0
             THEN RatDiv(Num(n.labelCounts[m]), Num(totalFeedbacks))
             ELSE Num(0)

\* Tier with the thresholds 0.25, 0.5 and 0.75 left in the lower tier
TierStrict(score) ==
    IF RatLt(Rat(3, 4), score) THEN 3
    ELSE IF RatLt(Rat(1, 2), score) THEN 2
    ELSE IF RatLt(Rat(1, 4), score) THEN 1
    ELSE 0

\* index (from 0) of the colour of a score in the palette of the mode
Tier(score) ==
    IF RatLe(Rat(3, 4), score) THEN 3
    ELSE IF RatLe(Rat(1, 2), score) THEN 2
    ELSE IF RatLe(Rat(1, 4), score) THEN 1
    ELSE 0

\* VisNode with the size taken from the score
VisNodeSizedByScore(n, m) ==
    LET completionRate == CompletionRate(n)
        score == Score(n, m)
        color == colorConfig[m][Tier(score) + 1]
    IN  [id |-> n.id, label |-> n.id, value |-> sizeScale(score),
         color |-> color, score |-> score, completionRate |-> completionRate]

\* one element of visNodes; score and completionRate are the values its title shows
VisNode(n, m) ==
    LET completionRate == CompletionRate(n)
        score == Score(n, m)
        color == colorConfig[m][Tier(score) + 1]
    IN  [id |-> n.id, label |-> n.id, value |-> sizeScale(completionRate),
         color |-> color, score |-> score, completionRate |-> completionRate]

VisEdge(e) ==
    [from |-> e.from, to |-> e.to,
     color |-> IF e.completedAll THEN "#73BEFF" ELSE "#ff6b6b",
     dashes |-> ~e.completedAll]

\* the data generateGraph hands to updateNetworkInstance
generateGraph(data, m, names) ==
    LET processed == processReviewerData(data, m, names)
    IN  [nodes |-> [i \in 1..Len(processed.nodes) |-> VisNode(processed.nodes[i], m)],
         edges |-> [i \in 1..Len(processed.links) |-> VisEdge(processed.links[i])]]

(***************************************************************************)
(* updateNetworkInstance: the render adapter of the two builds.            *)
(***************************************************************************)
Builds == {"static", "pipeline"}

\* the click handler of src/static: it filters on Reviewer_Name and logs
StaticHandler ==
    [registeredBy |-> "updateNetworkInstance", field |-> "Reviewer_Name", stats |-> FALSE]

\* the click handler of src/pipeline/static: it filters on Reviewer and shows the
\* statistics of the student
PipelineHandler ==
    [registeredBy |-> "updateNetworkInstance", field |-> "Reviewer", stats |-> TRUE]

EmptyData == [nodes |-> <<>>, edges |-> <<>>]

\* networkInstance.setOptions({ physics: { enabled: false } })
PhysicsOff(w) == [w EXCEPT !.calls = Append(@, "setOptions:physicsOff")]

\* networkInstance.setData(data)
SetData(w, data) == [w EXCEPT !.instance = data, !.calls = Append(@, "setData")]

\* networkInstance.setData({ nodes: [], edges: [] })
ClearData(w) == [w EXCEPT !.instance = EmptyData, !.calls = Append(@, "setData:empty")]

\* networkInstance.setOptions({ ...options, physics: { enabled: true } })
PhysicsOn(w) == [w EXCEPT !.calls = Append(@, "setOptions:physicsOn")]

\* networkInstance.redraw()
Redraw(w) == [w EXCEPT !.calls = Append(@, "redraw")]

\* new vis.Network(container, data, options)
NewNetwork(w, data) ==
    [w EXCEPT !.instance = data, !.handlers = <<>>, !.constructions = @ + 1,
              !.calls = Append(@, "new")]

\* networkInstance.on('click', handler)
OnClick(w, handler) ==
    [w EXCEPT !.handlers = Append(@, handler), !.calls = Append(@, "on:click")]

\* networkInstance.off('click')
OffClick(w) == [w EXCEPT !.handlers = <<>>, !.calls = Append(@, "off:click")]

\* the branch of updateNetworkInstance for an instance that exists
UpdateInPlace(w, data) == Redraw(PhysicsOn(SetData(ClearData(PhysicsOff(w)), data)))

\* UpdateInstance with a new instance built on every call
UpdateInstanceAlwaysNew(w, data) == NewNetwork(w, data)

\* the if/else of updateNetworkInstance on window.networkInstance
UpdateInstance(w, data) ==
    IF w.instance # None THEN UpdateInPlace(w, data) ELSE NewNetwork(w, data)

\* updateNetworkInstance(container, data, options, rawData) of build b: the static
\* build registers its handler on a new instance only, the pipeline build replaces
\* the handler on every call
updateNetworkInstance(w, data, b) ==
    IF b = "static"
    THEN IF w.instance # None THEN UpdateInstance(w, data)
         ELSE OnClick(UpdateInstance(w, data), StaticHandler)
    ELSE OnClick(OffClick(UpdateInstance(w, data)), PipelineHandler)

(***************************************************************************)
(* generateAllLabelsGraph: the all-labels rendering of graph_func.js.      *)
(***************************************************************************)
\* the click handler generateAllLabelsGraph registers on the instance it builds: it
\* filters on Reviewer and logs
AllLabelsHandler ==
    [registeredBy |-> "generateAllLabelsGraph", field |-> "Reviewer", stats |-> FALSE]

\* networkInstance.setOptions(options)
SetOptions(w) == [w EXCEPT !.calls = Append(@, "setOptions")]

\* Math.min(...allScores): Infinity without scores
RECURSIVE MinScore(_)
MinScore(nodes) ==
    IF nodes = <<>> THEN Infinity ELSE MathMin(Head(nodes).meaningfulScore, MinScore(Tail(nodes)))

\* Math.max(...allScores): -Infinity without scores
RECURSIVE MaxScore(_)
MaxScore(nodes) ==
    IF nodes = <<>> THEN NegInfinity
    ELSE MathMax(Head(nodes).meaningfulScore, MaxScore(Tail(nodes)))

\* sizeScale of generateAllLabelsGraph: 5 + ((value - minScore) / (maxScore - minScore)) * 25
allLabelsSizeScale(value, minScore, maxScore) ==
    RatAdd(Num(5), RatMul(RatDiv(RatSub(value, minScore), RatSub(maxScore, minScore)), Num(25)))

\* labels.filter(Boolean).length
LabelCount(n) ==
    Cardinality({f \in {"relevance", "concreteness", "constructive"} : n.labelCounts[f] > 0})

\* the colour rules: background, border, dashes and colorDepth of a node
AllLabelsStyle(n) ==
    LET labelCount == LabelCount(n)
    IN  IF labelCount = 0
        THEN IF n.isFeedbackEmpty
             THEN [color |-> "#f0f8ff", border |-> "#62B0D8", dashes |-> TRUE, colorDepth |-> 0]
             ELSE [color |-> "#BDEDFF", border |-> "#e6f3ff", dashes |-> FALSE, colorDepth |-> 1]
        ELSE IF labelCount = 1
        THEN [color |-> "#94D6FF", border |-> "#e6f3ff", dashes |-> FALSE, colorDepth |-> 2]
        ELSE IF labelCount = 2
        THEN [color |-> "#46B1F4", border |-> "#e6f3ff", dashes |-> FALSE, colorDepth |-> 3]
        ELSE [color |-> "#0A6DAA", border |-> "#e6f3ff", dashes |-> FALSE, colorDepth |-> 4]

\* the element of visNodes made of a node, before it is positioned
AllLabelsNode(n, minScore, maxScore) ==
    LET style == AllLabelsStyle(n)
    IN  [id |-> n.id, label |-> n.id,
         value |-> allLabelsSizeScale(n.meaningfulScore, minScore, maxScore),
         meaningfulScore |-> n.meaningfulScore,
         colorDepth |-> style.colorDepth,
         color |-> [background |-> style.color,
                    border |-> IF style.dashes THEN style.border ELSE style.color,
                    highlight |-> [background |-> style.color, border |-> style.border]]]

\* the comparator of visNodes.sort is negative: a is placed before b
SortsBefore(a, b) ==
    IF a.colorDepth # b.colorDepth THEN a.colorDepth > b.colorDepth
    ELSE RatLt(b.meaningfulScore, a.meaningfulScore)

\* x placed in sorted after every element it does not sort before
RECURSIVE InsertSorted(_, _)
InsertSorted(sorted, x) ==
    IF sorted = <<>> THEN <<x>>
    ELSE IF SortsBefore(x, Head(sorted)) THEN <<x>> \o sorted
    ELSE <<Head(sorted)>> \o InsertSorted(Tail(sorted), x)

\* visNodes.sort(...): Array.prototype.sort is stable
RECURSIVE SortNodes(_, _)
SortNodes(sorted, rest) ==
    IF rest = <<>> THEN sorted ELSE SortNodes(InsertSorted(sorted, Head(rest)), Tail(rest))

\* -200 + (index / (totalNodes - 1)) * 400, index counted from 0
YPosition(index, totalNodes) ==
    RatAdd(Num(-200), RatMul(RatDiv(Num(index), Num(totalNodes - 1)), Num(400)))

\* the values of (Math.random() - 0.5) * 300 the model draws from
XPositions == {Num(-150), Num(0)}

\* the data generateAllLabelsGraph hands to the network; xs[i] is the random x of
\* the i-th node after the sort
generateAllLabelsGraph(data, names, xs) ==
    LET processed == processReviewerData(data, "all", names)
        minScore == MinScore(processed.nodes)
        maxScore == MaxScore(processed.nodes)
        visNodes == SortNodes(<<>>, [i \in 1..Len(processed.nodes) |->
                                        AllLabelsNode(processed.nodes[i], minScore, maxScore)])
    IN  [nodes |-> [i \in 1..Len(visNodes) |->
                      [id |-> visNodes[i].id, label |-> visNodes[i].label,
                       value |-> visNodes[i].value,
                       meaningfulScore |-> visNodes[i].meaningfulScore,
                       colorDepth |-> visNodes[i].colorDepth, color |-> visNodes[i].color,
                       x |-> xs[i], y |-> YPosition(i - 1, Len(visNodes)), physics |-> TRUE]],
         edges |-> [i \in 1..Len(processed.links) |-> VisEdge(processed.links[i])]]

\* lines 331-355 of generateAllLabelsGraph: its own update of window.networkInstance
AllLabelsOwnUpdate(w, data) ==
    IF w.instance # None THEN SetOptions(SetData(w, data))
    ELSE OnClick(NewNetwork(w, data), AllLabelsHandler)

(***************************************************************************)
(* drawReviewerChart                                                       *)
(***************************************************************************)
\* drawReviewerChart(reviewerData) with the canvas present or not:
\* document.getElementById("reviewerChart").getContext("2d") throws on null;
\* otherwise the bar chart of item.avgLabel over item.reviewer
drawReviewerChart(reviewerData, canvas) ==
    IF ~canvas THEN [threw |-> TRUE]
    ELSE [threw |-> FALSE,
          chart |-> [type |-> "bar",
                     labels |-> [i \in 1..Len(reviewerData) |-> reviewerData[i].reviewer],
                     data |-> [i \in 1..Len(reviewerData) |-> reviewerData[i].avgLabel]]]

(***************************************************************************)
(* calculateHwLabelFrequency                                               *)
(***************************************************************************)
RECURSIVE Flatten(_)
Flatten(ss) == IF ss = <<>> THEN <<>> ELSE Head(ss) \o Flatten(Tail(ss))

\* the rounds of the records of one homework key whose Round is an array, in order
RoundsOf(hwData) ==
    Flatten([i \in 1..Len(hwData) |->
                IF IsArrayRound(hwData[i]) THEN hwData[i].Round ELSE <<>>])

\* "Only count rounds with complete data"
HasCompleteData(round) ==
    Has(round, "Relevance") /\ Has(round, "Concreteness") /\ Has(round, "Constructive")

\* HwStats with every round in the total, complete or not
HwStatsAllRounds(hwData) ==
    LET counted == {i \in 1..Len(RoundsOf(hwData)) : HasCompleteData(RoundsOf(hwData)[i])}
        rounds == RoundsOf(hwData)
    IN  [total |-> Len(rounds),
         relevance |-> Cardinality({i \in counted : rounds[i].Relevance = 1}),
         concreteness |-> Cardinality({i \in counted : rounds[i].Concreteness = 1}),
         constructive |-> Cardinality({i \in counted : rounds[i].Constructive = 1})]

\* hwStats[hwName] after the counting pass
HwStats(hwData) ==
    LET counted == {i \in 1..Len(RoundsOf(hwData)) : HasCompleteData(RoundsOf(hwData)[i])}
        rounds == RoundsOf(hwData)
    IN  [total |-> Cardinality(counted),
         relevance |-> Cardinality({i \in counted : rounds[i].Relevance = 1}),
         concreteness |-> Cardinality({i \in counted : rounds[i].Concreteness = 1}),
         constructive |-> Cardinality({i \in counted : rounds[i].Constructive = 1})]

\* Percentage without the factor 100
PercentageFraction(stats) ==
    IF stats.total > 0
    THEN [relevance |-> RatDiv(Num(stats.relevance), Num(stats.total)),
          concreteness |-> RatDiv(Num(stats.concreteness), Num(stats.total)),
          constructive |-> RatDiv(Num(stats.constructive), Num(stats.total)),
          total |-> stats.total]
    ELSE [relevance |-> Num(0), concreteness |-> Num(0), constructive |-> Num(0),
          total |-> 0]

\* hwStats to percentageStats
Percentage(stats) ==
    IF stats.total > 0
    THEN [relevance |-> RatMul(RatDiv(Num(stats.relevance), Num(stats.total)), Num(100)),
          concreteness |-> RatMul(RatDiv(Num(stats.concreteness), Num(stats.total)), Num(100)),
          constructive |-> RatMul(RatDiv(Num(stats.constructive), Num(stats.total)), Num(100)),
          total |-> stats.total]
    ELSE [relevance |-> Num(0), concreteness |-> Num(0), constructive |-> Num(0),
          total |-> 0]

calculateHwLabelFrequency(data) ==
    [hwName \in DOMAIN data |-> Percentage(HwStats(data[hwName]))]

(***************************************************************************)
(* The click on a node: the handlers and calculateStudentStats.            *)
(***************************************************************************)
\* a value that is not an array is falsy: null, "" and 0
IsFalsy(x) ==
    \/ x.kind = "null"
    \/ x.kind = "string" /\ x.s = <<>>
    \/ x.kind = "number" /\ x.num = 0

\* record.Round || [] followed by rounds.forEach: a truthy value that is not an
\* array has no forEach
RoundOrEmpty(record) ==
    IF Has(record, "Round") THEN [iterable |-> TRUE, v |-> record.Round]
    ELSE IF ~Has(record, "RoundNonArray") \/ IsFalsy(record.RoundNonArray)
         THEN [iterable |-> TRUE, v |-> <<>>]
         ELSE [iterable |-> FALSE]

\* feedback && feedback.trim() && feedback.toUpperCase() !== 'NULL'
IsValidReview(round) ==
    LET feedback == StrOr(round, "Feedback")
    IN  /\ feedback # EmptyStr
        /\ trim(feedback) # EmptyStr
        /\ toUpperCase(feedback) # <<"N", "U", "L", "L">>

\* o.f === 1
IsOne(o, f) == Has(o, f) /\ o[f] = 1

\* the element pushed to feedbackList for a round with a valid review
FeedbackItem(record, round) ==
    [author |-> IF StrOr(record, "Author") # EmptyStr THEN record.Author
                ELSE <<"U", "n", "k", "n", "o", "w", "n">>,
     feedback |-> trim(StrOr(round, "Feedback")),
     time |-> StrOr(round, "Time"),
     roundNum |-> NumOr(round, "Round", 1),
     relevance |-> IsOne(round, "Relevance"),
     concreteness |-> IsOne(round, "Concreteness"),
     constructive |-> IsOne(round, "Constructive")]

\* the body of reviewerRecords.forEach
AddRecordStats(st, record) ==
    LET rs == RoundOrEmpty(record)
        valid == SelectSeq(rs.v, IsValidReview)
        ones(f) == Cardinality({i \in 1..Len(valid) : IsOne(valid[i], f)})
    IN  IF st.threw THEN st
        ELSE IF ~rs.iterable THEN [st EXCEPT !.threw = TRUE]
        ELSE [st EXCEPT
                !.validReviews = @ + Len(valid),
                !.feedbackList = @ \o [i \in 1..Len(valid) |-> FeedbackItem(record, valid[i])],
                !.relevanceCount = @ + ones("Relevance"),
                !.concretenessCount = @ + ones("Concreteness"),
                !.constructiveCount = @ + ones("Constructive"),
                !.completedTasks = @ + (IF Len(valid) > 0 THEN 1 ELSE 0)]

RECURSIVE AddRecordsStats(_, _)
AddRecordsStats(st, reviewerRecords) ==
    IF reviewerRecords = <<>> THEN st
    ELSE AddRecordsStats(AddRecordStats(st, Head(reviewerRecords)), Tail(reviewerRecords))

\* calculateStudentStats(nodeId, reviewerRecords): the statistics, or
\* [threw |-> TRUE] when rounds.forEach is not a function
calculateStudentStats(nodeId, reviewerRecords) ==
    LET st == AddRecordsStats([threw |-> FALSE, validReviews |-> 0, relevanceCount |-> 0,
                               concretenessCount |-> 0, constructiveCount |-> 0,
                               completedTasks |-> 0, feedbackList |-> <<>>],
                              reviewerRecords)
        assignedTasks == Len(reviewerRecords)
    IN  IF st.threw THEN [threw |-> TRUE]
        ELSE [studentName |-> nodeId,
              validReviews |-> st.validReviews,
              completedTasks |-> st.completedTasks,
              assignedTasks |-> assignedTasks,
              participationRate |-> IF assignedTasks > 0
                                    THEN RatDiv(Num(st.completedTasks), Num(assignedTasks))
                                    ELSE Num(0),
              relevanceCount |-> st.relevanceCount,
              concretenessCount |-> st.concretenessCount,
              constructiveCount |-> st.constructiveCount,
              feedbackList |-> st.feedbackList]

\* a[field] === nodeId
FieldIs(a, field, nodeId) == Has(a, field) /\ a[field] = nodeId

\* rawData[hwName]?.filter(a => a[field] === nodeId) || []
RecordsOfReviewer(data, hwName, field, nodeId) ==
    IF hwName \in DOMAIN data
    THEN SelectSeq(data[hwName], LAMBDA a : FieldIs(a, field, nodeId))
    ELSE <<>>

\* selectedHWs.flatMap(...)
ReviewerRecords(data, selectedHWs, field, nodeId) ==
    Flatten([k \in 1..Len(selectedHWs) |->
                RecordsOfReviewer(data, selectedHWs[k], field, nodeId)])

\* what one handler does on a click on nodeId with selectedHWs chosen in the
\* hw-select widget: the records it surfaces and, in the pipeline build, the
\* statistics its modal shows
Reaction(handler, data, selectedHWs, nodeId) ==
    LET reviewerRecords == ReviewerRecords(data, selectedHWs, handler.field, nodeId)
        studentStats == calculateStudentStats(nodeId, reviewerRecords)
    IN  IF ~handler.stats
        THEN [handler |-> handler, reviewerRecords |-> reviewerRecords, threw |-> FALSE]
        ELSE IF Has(studentStats, "threw")
        THEN [handler |-> handler, reviewerRecords |-> reviewerRecords, threw |-> TRUE]
        ELSE [handler |-> handler, reviewerRecords |-> reviewerRecords, threw |-> FALSE,
              studentStats |-> studentStats]

(***************************************************************************)
(* prepareNetworkDataForBubbleChart                                        *)
(***************************************************************************)
NewStudent(studentId) ==
    [id |-> studentId, name |-> studentId, validComments |-> 0, validRounds |-> 0,
     assignedTasks |-> 0, relevanceCount |-> 0, concretenessCount |-> 0,
     constructiveCount |-> 0]

\* assignment.Reviewer || assignment.reviewer, None for undefined
StudentIdOf(assignment, upper, lower) ==
    IF StrOr(assignment, upper) # EmptyStr THEN assignment[upper]
    ELSE IF Has(assignment, lower) THEN assignment[lower]
    ELSE None

\* if (studentId && !studentData.has(studentId)) studentData.set(...)
EnsureStudent(students, studentId) ==
    IF studentId # None /\ NodeIndex(students, studentId) = 0
    THEN Append(students, NewStudent(studentId))
    ELSE students

\* assignment.Round && assignment.Round.length > 0
HasRounds(assignment) ==
    IF Has(assignment, "Round") THEN Len(assignment.Round) > 0
    ELSE /\ Has(assignment, "RoundNonArray")
         /\ assignment.RoundNonArray.kind = "string"
         /\ Len(assignment.RoundNonArray.s) > 0

\* the body of hwData.forEach: a Round with a positive length that is not an
\* array has no forEach
AddAssignmentToBubbles(acc, assignment) ==
    LET reviewer == StudentIdOf(assignment, "Reviewer", "reviewer")
        author == StudentIdOf(assignment, "Author", "author")
        students == EnsureStudent(EnsureStudent(acc.students, reviewer), author)
        k == NodeIndex(students, reviewer)
        valid == SelectSeq(assignment.Round, HasValidFeedback)
        ones(f) == Cardinality({i \in 1..Len(valid) : IsOne(valid[i], f)})
    IN  IF acc.threw THEN acc
        ELSE IF reviewer = None THEN [acc EXCEPT !.students = students]
        ELSE IF ~HasRounds(assignment)
        THEN [acc EXCEPT !.students = [students EXCEPT ![k].assignedTasks = @ + 1]]
        ELSE IF ~Has(assignment, "Round")
        THEN [students |-> [students EXCEPT ![k].assignedTasks = @ + 1], threw |-> TRUE]
        ELSE [acc EXCEPT !.students =
                [students EXCEPT
                    ![k].assignedTasks = @ + 1,
                    ![k].validComments = @ + (IF Len(valid) > 0 THEN 1 ELSE 0),
                    ![k].validRounds = @ + Len(valid),
                    ![k].relevanceCount = @ + ones("Relevance"),
                    ![k].concretenessCount = @ + ones("Concreteness"),
                    ![k].constructiveCount = @ + ones("Constructive")]]

RECURSIVE AddAssignmentsToBubbles(_, _)
AddAssignmentsToBubbles(acc, hwData) ==
    IF hwData = <<>> THEN acc
    ELSE AddAssignmentsToBubbles(AddAssignmentToBubbles(acc, Head(hwData)), Tail(hwData))

RECURSIVE AddHwNamesToBubbles(_, _, _)
AddHwNamesToBubbles(acc, data, keys) ==
    IF keys = <<>> THEN acc
    ELSE AddHwNamesToBubbles(
            AddAssignmentsToBubbles(acc, HwAssignments(data, Head(keys))), data, Tail(keys))

BubbleNode(student) ==
    [id |-> student.id, label |-> student.name, group |-> "student",
     validComments |-> student.validComments, validRounds |-> student.validRounds,
     assignedTasks |-> student.assignedTasks, relevanceCount |-> student.relevanceCount,
     concretenessCount |-> student.concretenessCount,
     constructiveCount |-> student.constructiveCount]

\* the rawData of a page whose data never arrived; an object without keys is data
NoRawData == [loaded |-> FALSE]

\* prepareNetworkDataForBubbleChart(hwNames) on the module's rawData: null without
\* data, [threw |-> TRUE] when forEach is not a function (hwNames a string, or a
\* Round that is a non-empty string)
prepareNetworkDataForBubbleChart(data, names) ==
    IF data = NoRawData THEN None
    ELSE IF names.type = "string" THEN [threw |-> TRUE]
    ELSE LET acc == AddHwNamesToBubbles([students |-> <<>>, threw |-> FALSE], data, names.v)
         IN  IF acc.threw THEN [threw |-> TRUE]
             ELSE [nodes |-> [i \in 1..Len(acc.students) |-> BubbleNode(acc.students[i])],
                   edges |-> <<>>]

(***************************************************************************)
(* Input data: homework key -> sequence of assignment records.             *)
(***************************************************************************)
Reviewers == {<<"A">>, <<"B">>}

\* processReviewerData never looks inside a reviewer id, so the first record of a
\* data set is reviewed by FirstReviewer
FirstReviewer == <<"A">>

Authors == {<<"C">>}

\* empty, whitespace-only and real feedback
FeedbackSet == {<<>>, <<" ">>, <<"o", "k">>}

FlagSet == {0, 1}

FlagNames == {"Relevance", "Concreteness", "Constructive"}

\* rounds of the 3-label data: every flag is present and is 0 or 1
LabelledRounds ==
    [Feedback : FeedbackSet, Relevance : FlagSet, Concreteness : FlagSet,
     Constructive : FlagSet]

\* rounds of the frequency chart: each flag is undefined, 0, 1 or 2
FreqFlagSet == {0, 1, 2}

FreqRounds ==
    { [f \in {"Feedback"} \cup D |-> IF f = "Feedback" THEN <<"o", "k">> ELSE full[f]] :
        full \in [FlagNames -> FreqFlagSet], D \in SUBSET FlagNames }

\* reviewer names of the label averages: spellings of A, and B
AvgReviewers == {<<"A">>, <<" ", "a">>, <<"B">>}

\* unparseable, integer, decimal and number-then-letter labels
LabelSet == {<<"x">>, <<"1">>, <<"0", ".", "5">>, <<"2", "x">>}

\* rounds of the label averages: Label is undefined or a string
AvgRounds ==
    [Feedback : {<<>>, <<"o", "k">>}, Label : LabelSet] \cup [Feedback : {<<>>, <<"o", "k">>}]

\* the shape of a record: who reviews whom, whether Round is an array, its length
RecShapes(RV) ==
    {sh \in [Reviewer : RV, Author : Authors, isArray : BOOLEAN, n : 0..MaxRounds] :
        ~sh.isArray => sh.n = 0}

RECURSIVE SumN(_)
SumN(shapes) == IF shapes = <<>> THEN 0 ELSE Head(shapes).n + SumN(Tail(shapes))

\* at most MaxRecs records that hold at most MaxRounds rounds together; the first
\* record is reviewed by one of First
ShapeSeqs(RV, First) ==
    UNION { {shapes \in [1..n -> RecShapes(RV)] :
                /\ SumN(shapes) <= MaxRounds
                /\ n > 0 => shapes[1].Reviewer \in First} : n \in 0..MaxRecs }

\* the record of shape sh whose rounds are rounds[from + 1 .. from + sh.n]
RecordOf(sh, rounds, from) ==
    IF sh.isArray
    THEN [Reviewer |-> sh.Reviewer, Author |-> sh.Author,
          Round |-> SubSeq(rounds, from + 1, from + sh.n)]
    ELSE [Reviewer |-> sh.Reviewer, Author |-> sh.Author]

RecordsOf(shapes, rounds) ==
    [i \in 1..Len(shapes) |-> RecordOf(shapes[i], rounds, SumN(SubSeq(shapes, 1, i - 1)))]

\* the data set that holds recs, the first j of them under HW1, with the keys dom
SplitData(recs, j, dom) ==
    [k \in dom |-> IF k = "HW1" THEN SubSeq(recs, 1, j) ELSE SubSeq(recs, j + 1, Len(recs))]

\* a homework key without records is absent or maps to an empty array
KeySets(n, j) ==
    {D \in SUBSET Keys : /\ j > 0 => "HW1" \in D
                         /\ j < n => "HW2" \in D}

\* recs is an array of records over the rounds RS and the reviewers RV
IsRecords(recs, RS, RV, First) ==
    \E shapes \in ShapeSeqs(RV, First) :
        \E rounds \in [1..SumN(shapes) -> RS] :
            recs = RecordsOf(shapes, rounds)

\* data is a data set over the rounds RS and the reviewers RV
IsRawData(data, RS, RV, First) ==
    \E shapes \in ShapeSeqs(RV, First) :
        \E rounds \in [1..SumN(shapes) -> RS] :
            \E j \in 0..Len(shapes) :
                \E dom \in KeySets(Len(shapes), j) :
                    data = SplitData(RecordsOf(shapes, rounds), j, dom)

\* the homework selections: one key as a string, or an array of keys in page order
HwNamesSet ==
    {[type |-> "string", v |-> "HW1"]}
    \cup {[type |-> "array", v |-> sel] : sel \in {<<>>, <<"HW2">>, <<"HW1", "HW2">>}}

\* data is a data set of at most MaxRecs records drawn from RecSet
IsDataOver(data, RecSet) ==
    \E n \in 0..MaxRecs :
        \E recs \in [1..n -> RecSet] :
            \E j \in 0..n :
                \E dom \in KeySets(n, j) :
                    data = SplitData(recs, j, dom)

\* reviewer ids that differ only in case
LinkReviewers == {<<"A">>, <<"a">>}

LinkAuthors == {<<"C">>, <<"D">>}

\* a round without feedback and a round with feedback
LinkRounds ==
    {[Feedback |-> <<>>, Relevance |-> 1, Concreteness |-> 1, Constructive |-> 1],
     [Feedback |-> <<"o", "k">>, Relevance |-> 1, Concreteness |-> 0, Constructive |-> 1]}

\* records without Round, with a string of three characters as Round, and with an
\* array of up to MaxRecordRounds rounds
LinkRecords ==
    [Reviewer : LinkReviewers, Author : LinkAuthors]
    \cup [Reviewer : LinkReviewers, Author : LinkAuthors,
          RoundNonArray : {[kind |-> "string", s |-> <<"a", "b", "c">>]}]
    \cup [Reviewer : LinkReviewers, Author : LinkAuthors,
          Round : UNION {[1..n -> LinkRounds] : n \in 0..MaxRecordRounds}]

\* rounds of the colour data: one without feedback, and every choice of flags
\* with feedback
TierRounds ==
    {[Feedback |-> <<>>, Relevance |-> 1, Concreteness |-> 1, Constructive |-> 1]}
    \cup [Feedback : {<<"o", "k">>}, Relevance : FlagSet, Concreteness : FlagSet,
          Constructive : FlagSet]

\* what the Round of a record can be when it is not an array
NonArrayRounds ==
    {[kind |-> "null"], [kind |-> "string", s |-> <<>>], [kind |-> "string", s |-> <<"a", "b">>],
     [kind |-> "number", num |-> 0], [kind |-> "number", num |-> 3], [kind |-> "object"]}

\* records of one reviewer whose Round is missing, not an array, or an array of at
\* most one round
MalformedRecords ==
    [Reviewer : {FirstReviewer}, Author : Authors]
    \cup [Reviewer : {FirstReviewer}, Author : Authors, RoundNonArray : NonArrayRounds]
    \cup [Reviewer : {FirstReviewer}, Author : Authors,
          Round : {<<>>, <<[Feedback |-> <<"o", "k">>, Relevance |-> 1, Concreteness |-> 0,
                            Constructive |-> 1]>>}]

\* the selections of the hw-select widget, in the order of its options
SelectedHWsSet == {<<>>, <<"HW1">>, <<"HW2">>, <<"HW1", "HW2">>}

\* labels of the quality rounds: unparseable, above 1, inside [0, 1], negative,
\* and the two infinities
QualityLabels ==
    {<<"x">>, <<"2">>, <<"0", ".", "5">>, <<"-", "1">>, InfinityWord,
     <<"-">> \o InfinityWord}

QualityRounds ==
    [Feedback : FeedbackSet, Label : QualityLabels] \cup [Feedback : FeedbackSet]
    \cup [Label : QualityLabels] \cup {[Time |-> <<>>]}

\* what a caller can pass as rounds: undefined, null, a string, or an array of at
\* most MaxRounds rounds
RoundsArgs ==
    {[kind |-> "undefined"], [kind |-> "null"], [kind |-> "string", s |-> <<"a", "b">>]}
    \cup {[kind |-> "array", v |-> rs] :
             rs \in UNION {[1..n -> QualityRounds] : n \in 0..MaxRounds}}

Modes == {"all", "relevance", "concreteness", "constructive"}

(***************************************************************************)
(* The aggregation calls on one data set.                                  *)
(***************************************************************************)
\* the page before any rendering, click or bubble chart update
Idle ==
    /\ container = TRUE
    /\ clickHandlers = <<>>
    /\ instanceCalls = <<>>
    /\ constructions = 0
    /\ bubbleData = None
    /\ clicked = None
    /\ thrown = "none"

NoQuality == roundsArg = None /\ avgLabelQuality = None

\* the two charts of the page: all comments, valid comments only
Charts == {"all", "valid"}

\* the textContent the finally block gives the Generate button
GenerateLabel ==
    [all |-> "Generate Chart (All Comments)", valid |-> "Generate Chart (Labeled Only)"]

\* the file name the Download button saves to
DownloadName == [all |-> "hwLabelChart_all.png", valid |-> "hwLabelChart_valid.png"]

\* initHwLabelChartEvents has run: no chart yet, the Download buttons disabled
ChartsIdle ==
    /\ generateBtn = [c \in Charts |-> [disabled |-> FALSE, textContent |-> GenerateLabel[c]]]
    /\ downloadBtn = [c \in Charts |-> [disabled |-> TRUE]]
    /\ currentChart = [c \in Charts |-> "null"]
    /\ inFlight = [c \in Charts |-> 0]
    /\ savedFile = ""

\* nothing logged and no chart drawn yet
PageIdle ==
    /\ loggedError = FALSE
    /\ reviewerCanvas = TRUE
    /\ reviewerCharts = <<>>
    /\ fetchState = "ok"
    /\ currentMode = "all"
    /\ currentHW = <<>>
    /\ hwOptions = <<>>
    /\ hwSelect = <<>>
    /\ activeButtons = {}
    /\ alerted = FALSE
    /\ bubbleChartManager = FALSE
    /\ callArgs = None
    /\ ChartsIdle

Init ==
    /\ IsRawData(rawData, LabelledRounds, Reviewers, {FirstReviewer})
    /\ hwNames \in HwNamesSet
    /\ mode = "none"
    /\ assignments = None
    /\ returned = None
    /\ graph = None
    /\ networkInstance = None
    /\ percentageStats = None
    /\ pc = "start"
    /\ build = "static"
    /\ Idle
    /\ PageIdle
    /\ NoQuality

ProcessReviewerData ==
    /\ pc = "start"
    /\ graph' = processReviewerData(rawData, "all", hwNames)
    /\ pc' = "processReviewerData"
    /\ UNCHANGED <<rawData, hwNames, mode, assignments, returned, networkInstance,
                   percentageStats, renderVars, bubbleData, clicked, thrown, qualityVars,
                   loggedError, pageVars>>

\* window.networkInstance with its handlers, at the start of a render call
Window ==
    [instance |-> networkInstance, handlers |-> clickHandlers, calls |-> <<>>,
     constructions |-> constructions]

\* a render call leaves the window as w
WindowBecomes(w) ==
    /\ networkInstance' = w.instance
    /\ clickHandlers' = w.handlers
    /\ instanceCalls' = w.calls
    /\ constructions' = w.constructions

\* generateGraph(rawData, m, hwNames): nothing happens without the container
GenerateGraph ==
    /\ \E m \in Modes :
        /\ mode' = m
        /\ IF container
           THEN /\ graph' = processReviewerData(rawData, m, hwNames)
                /\ WindowBecomes(updateNetworkInstance(
                        Window, generateGraph(rawData, m, hwNames), build))
           ELSE /\ instanceCalls' = <<>>
                /\ UNCHANGED <<graph, networkInstance, clickHandlers, constructions>>
    /\ thrown' = "none"
    /\ loggedError' = FALSE
    /\ pc' = "generateGraph"
    /\ UNCHANGED <<rawData, hwNames, assignments, returned, percentageStats, build,
                   container, bubbleData, clicked, qualityVars,
                   pageVars>>

CalculateHwLabelFrequency ==
    /\ pc = "start"
    /\ percentageStats' = calculateHwLabelFrequency(rawData)
    /\ pc' = "calculateHwLabelFrequency"
    /\ UNCHANGED <<rawData, hwNames, mode, assignments, returned, graph, networkInstance,
                   renderVars, bubbleData, clicked, thrown, qualityVars,
                   loggedError, pageVars>>

Next == ProcessReviewerData \/ CalculateHwLabelFrequency

Spec == Init /\ [][Next]_vars

\* the frequency chart of one data set whose rounds may lack flags
InitFreq ==
    /\ IsRawData(rawData, FreqRounds, {FirstReviewer}, {FirstReviewer})
    /\ hwNames = [type |-> "array", v |-> <<>>]
    /\ mode = "none"
    /\ assignments = None
    /\ returned = None
    /\ graph = None
    /\ networkInstance = None
    /\ percentageStats = None
    /\ pc = "start"
    /\ build = "static"
    /\ Idle
    /\ PageIdle
    /\ NoQuality

NextFreq == CalculateHwLabelFrequency

SpecFreq == InitFreq /\ [][NextFreq]_vars

\* the label averages of one array of records
InitAvg ==
    /\ IsRecords(assignments, AvgRounds, AvgReviewers, AvgReviewers)
    /\ rawData = None
    /\ hwNames = [type |-> "array", v |-> <<>>]
    /\ mode = "none"
    /\ returned = None
    /\ graph = None
    /\ networkInstance = None
    /\ percentageStats = None
    /\ pc = "start"
    /\ build = "static"
    /\ Idle
    /\ PageIdle
    /\ NoQuality

\* the records are annotated in place and the same array is returned
CalculateReviewerLabelAverages ==
    /\ pc = "start"
    /\ assignments' = calculateReviewerLabelAverages(assignments)
    /\ returned' = assignments'
    /\ pc' = "calculateReviewerLabelAverages"
    /\ UNCHANGED <<rawData, hwNames, mode, graph, networkInstance, percentageStats,
                   renderVars, bubbleData, clicked, thrown, qualityVars,
                   loggedError, pageVars>>

NextAvg == CalculateReviewerLabelAverages

SpecAvg == InitAvg /\ [][NextAvg]_vars

\* the aggregation of records with up to MaxRecordRounds rounds each
InitLinks ==
    /\ IsDataOver(rawData, LinkRecords)
    /\ hwNames \in HwNamesSet
    /\ mode = "none"
    /\ assignments = None
    /\ returned = None
    /\ graph = None
    /\ networkInstance = None
    /\ percentageStats = None
    /\ pc = "start"
    /\ build = "static"
    /\ Idle
    /\ PageIdle
    /\ NoQuality

NextLinks == ProcessReviewerData

SpecLinks == InitLinks /\ [][NextLinks]_vars

\* the average label quality of one rounds argument
InitQuality ==
    /\ roundsArg \in RoundsArgs
    /\ avgLabelQuality = None
    /\ rawData = None
    /\ hwNames = [type |-> "array", v |-> <<>>]
    /\ mode = "none"
    /\ assignments = None
    /\ returned = None
    /\ graph = None
    /\ networkInstance = None
    /\ percentageStats = None
    /\ pc = "start"
    /\ build = "static"
    /\ Idle
    /\ PageIdle

GetAvgLabelQuality ==
    /\ pc = "start"
    /\ avgLabelQuality' = getAvgLabelQuality(roundsArg)
    /\ pc' = "getAvgLabelQuality"
    /\ UNCHANGED <<rawData, hwNames, mode, assignments, returned, graph, networkInstance,
                   percentageStats, renderVars, bubbleData, clicked, thrown, roundsArg,
                   loggedError, pageVars>>

NextQuality == GetAvgLabelQuality

SpecQuality == InitQuality /\ [][NextQuality]_vars

\* the rendering of one reviewer with up to MaxTierRounds rounds
InitTier ==
    /\ \E n \in 0..MaxTierRounds :
        \E rs \in [1..n -> TierRounds] :
            rawData = [HW1 |-> <<[Reviewer |-> FirstReviewer, Author |-> <<"C">>,
                                  Round |-> rs]>>]
    /\ hwNames = [type |-> "string", v |-> "HW1"]
    /\ mode = "none"
    /\ assignments = None
    /\ returned = None
    /\ graph = None
    /\ networkInstance = None
    /\ percentageStats = None
    /\ pc = "start"
    /\ build = "static"
    /\ Idle
    /\ PageIdle
    /\ NoQuality

NextTier == pc = "start" /\ GenerateGraph

SpecTier == InitTier /\ [][NextTier]_vars

\* prepareNetworkDataForBubbleChart(hwNames); its caller updateBubbleChartOnly
\* catches and logs what it throws
PrepareNetworkDataForBubbleChart ==
    /\ LET networkData == prepareNetworkDataForBubbleChart(rawData, hwNames)
       IN  IF networkData # None /\ Has(networkData, "threw")
           THEN thrown' = "TypeError" /\ UNCHANGED bubbleData
           ELSE thrown' = "none" /\ bubbleData' = networkData
    /\ pc' = "prepareNetworkDataForBubbleChart"
    /\ UNCHANGED <<rawData, hwNames, mode, assignments, returned, graph, networkInstance,
                   percentageStats, renderVars, clicked, qualityVars,
                   loggedError, pageVars>>

\* a click on a node of the network: every registered handler reacts, with the
\* homework keys selected in the widget at that moment
ClickNode ==
    /\ networkInstance # None
    /\ clickHandlers # <<>>
    /\ \E k \in 1..Len(networkInstance.nodes), selectedHWs \in SelectedHWsSet :
        LET nodeId == networkInstance.nodes[k].id
            reactions == [h \in 1..Len(clickHandlers) |->
                            Reaction(clickHandlers[h], rawData, selectedHWs, nodeId)]
        IN  /\ clicked' = [nodeId |-> nodeId, selectedHWs |-> selectedHWs,
                           reactions |-> reactions]
            /\ thrown' = IF \E h \in 1..Len(reactions) : reactions[h].threw
                         THEN "TypeError" ELSE "none"
    /\ pc' = "click"
    /\ UNCHANGED <<rawData, hwNames, mode, assignments, returned, graph, networkInstance,
                   percentageStats, renderVars, bubbleData, qualityVars,
                   loggedError, pageVars>>

\* the calls on a data set whose records may have a Round that is not an array
InitMalformed ==
    /\ IsDataOver(rawData, MalformedRecords)
    /\ hwNames = [type |-> "array", v |-> <<"HW1", "HW2">>]
    /\ assignments = HwAssignments(rawData, "HW1")
    /\ build \in Builds
    /\ mode = "none"
    /\ returned = None
    /\ graph = None
    /\ networkInstance = None
    /\ percentageStats = None
    /\ pc = "start"
    /\ Idle
    /\ PageIdle
    /\ NoQuality

NextMalformed ==
    \/ ProcessReviewerData
    \/ CalculateReviewerLabelAverages
    \/ pc = "start" /\ PrepareNetworkDataForBubbleChart
    \/ pc = "start" /\ GenerateGraph
    \/ ClickNode

SpecMalformed == InitMalformed /\ [][NextMalformed]_vars

\* generateAllLabelsGraph(rawData, hwNames): nothing happens without the container;
\* its own update of the instance is followed by updateNetworkInstance
GenerateAllLabelsGraph ==
    /\ IF container
       THEN /\ graph' = processReviewerData(rawData, "all", hwNames)
            /\ \E xs \in [1..Len(graph'.nodes) -> XPositions] :
                LET data == generateAllLabelsGraph(rawData, hwNames, xs)
                IN  WindowBecomes(updateNetworkInstance(
                        AllLabelsOwnUpdate(Window, data), data, build))
       ELSE /\ instanceCalls' = <<>>
            /\ UNCHANGED <<graph, networkInstance, clickHandlers, constructions>>
    /\ thrown' = "none"
    /\ loggedError' = ~container
    /\ pc' = "generateAllLabelsGraph"
    /\ UNCHANGED <<rawData, hwNames, mode, assignments, returned, percentageStats, build,
                   container, bubbleData, clicked, qualityVars,
                   pageVars>>

\* rounds that give nodes of different depths of colour
RenderRounds ==
    {[Feedback |-> <<>>, Relevance |-> 0, Concreteness |-> 0, Constructive |-> 0],
     [Feedback |-> <<"o", "k">>, Relevance |-> 1, Concreteness |-> 0, Constructive |-> 0],
     [Feedback |-> <<"o", "k">>, Relevance |-> 1, Concreteness |-> 1, Constructive |-> 1]}

RenderRecords ==
    [Reviewer : Reviewers, Author : Authors, Round : {<<>>} \cup {<<r>> : r \in RenderRounds}]

\* any sequence of render calls on one data set, in either build
InitRender ==
    /\ IsDataOver(rawData, RenderRecords)
    /\ hwNames = [type |-> "array", v |-> <<"HW1", "HW2">>]
    /\ build \in Builds
    /\ mode = "none"
    /\ assignments = None
    /\ returned = None
    /\ graph = None
    /\ networkInstance = None
    /\ percentageStats = None
    /\ pc = "start"
    /\ Idle
    /\ PageIdle
    /\ NoQuality

NextRender == GenerateGraph \/ GenerateAllLabelsGraph

SpecRender == InitRender /\ [][NextRender]_vars

\* records of two reviewers, each with one round
ClickRecords ==
    [Reviewer : Reviewers, Author : Authors,
     Round : {<<[Feedback |-> <<"o", "k">>, Relevance |-> 1, Concreteness |-> 0,
                 Constructive |-> 1]>>}]

\* render calls and clicks on the nodes of the network, in either build
InitClick ==
    /\ IsDataOver(rawData, ClickRecords)
    /\ hwNames = [type |-> "array", v |-> <<"HW1", "HW2">>]
    /\ build \in Builds
    /\ mode = "none"
    /\ assignments = None
    /\ returned = None
    /\ graph = None
    /\ networkInstance = None
    /\ percentageStats = None
    /\ pc = "start"
    /\ Idle
    /\ PageIdle
    /\ NoQuality

NextClick == GenerateGraph \/ GenerateAllLabelsGraph \/ ClickNode

SpecClick == InitClick /\ [][NextClick]_vars

\* the arrays handed to drawReviewerChart
ReviewerDataSet ==
    {<<>>,
     <<[reviewer |-> <<"A">>, avgLabel |-> NaN], [reviewer |-> <<"B">>, avgLabel |-> Num(0)]>>}

\* drawReviewerChart(reviewerData): a new Chart on the canvas
DrawReviewerChart ==
    /\ Len(reviewerCharts) < MaxCharts
    /\ \E reviewerData \in ReviewerDataSet :
        LET drawn == drawReviewerChart(reviewerData, reviewerCanvas)
        IN  IF drawn.threw
            THEN thrown' = "TypeError" /\ UNCHANGED reviewerCharts
            ELSE thrown' = "none" /\ reviewerCharts' = Append(reviewerCharts, drawn.chart)
    /\ loggedError' = FALSE
    /\ pc' = "drawReviewerChart"
    /\ UNCHANGED <<rawData, hwNames, mode, assignments, returned, graph, networkInstance,
                   percentageStats, renderVars, bubbleData, clicked, qualityVars,
                   reviewerCanvas, modeVars,
                   chartBtnVars>>

\* the page loses a render target: #review-graph or #reviewerChart is removed
RemoveElement ==
    /\ \/ container /\ container' = FALSE /\ UNCHANGED reviewerCanvas
       \/ reviewerCanvas /\ reviewerCanvas' = FALSE /\ UNCHANGED container
    /\ pc' = "removeElement"
    /\ UNCHANGED <<rawData, hwNames, mode, assignments, returned, graph, networkInstance,
                   percentageStats, build, clickHandlers, instanceCalls, constructions,
                   bubbleData, clicked, thrown, qualityVars, loggedError, reviewerCharts,
                   modeVars,
                   chartBtnVars>>

\* records of one reviewer
TargetRecords == {r \in ClickRecords : r.Reviewer = FirstReviewer}

\* the render entry points on a page whose render targets may go away
InitTarget ==
    /\ IsDataOver(rawData, TargetRecords)
    /\ hwNames = [type |-> "array", v |-> <<"HW1", "HW2">>]
    /\ build \in Builds
    /\ mode = "none"
    /\ assignments = None
    /\ returned = None
    /\ graph = None
    /\ networkInstance = None
    /\ percentageStats = None
    /\ pc = "start"
    /\ Idle
    /\ PageIdle
    /\ NoQuality

NextTarget == GenerateGraph \/ GenerateAllLabelsGraph \/ DrawReviewerChart \/ RemoveElement

SpecTarget == InitTarget /\ [][NextTarget]_vars

(***************************************************************************)
(* The page script: loadData, updateGraphMode, the GO button.              *)
(***************************************************************************)
\* modeButtons of updateGraphMode: the index of the button of each mode
modeButtons == [all |-> 0, relevance |-> 1, concreteness |-> 2, constructive |-> 3]

\* the indices of the .switch-btn buttons of the page
SwitchButtons == {0, 1, 2, 3}

\* Object.keys(data).sort()
SortedKeys(data) == SelectSeq(<<"HW1", "HW2">>, LAMBDA k : k \in DOMAIN data)

\* the render state is left as it is
NoRender ==
    UNCHANGED <<mode, hwNames, graph, networkInstance, clickHandlers, instanceCalls,
                constructions, bubbleData>>

\* UpdateGraphModeLoaded with the active class never removed from the other buttons
UpdateGraphModeKeepActive(data, m, names) ==
    LET arg == [type |-> "array", v |-> names]
        targetIndex == modeButtons[m]
        networkData == prepareNetworkDataForBubbleChart(data, arg)
        bubbleThrew == bubbleChartManager /\ Has(networkData, "threw")
    IN  /\ currentMode' = m
        /\ currentHW' = names
        /\ activeButtons' = activeButtons \cup ({targetIndex} \cap SwitchButtons)
        /\ mode' = m
        /\ hwNames' = arg
        /\ IF container
           THEN /\ graph' = processReviewerData(data, m, arg)
                /\ WindowBecomes(updateNetworkInstance(
                        Window, generateGraph(data, m, arg), build))
           ELSE /\ instanceCalls' = <<>>
                /\ UNCHANGED <<graph, networkInstance, clickHandlers, constructions>>
        /\ bubbleData' = IF bubbleChartManager /\ ~bubbleThrew THEN networkData
                         ELSE bubbleData
        /\ loggedError' = (targetIndex \notin SwitchButtons \/ bubbleThrew)

\* updateGraphMode(m, names) past its test of rawData, with data the module's rawData:
\* the mode and the selection are stored, the button of the mode is made the active
\* one, the graph is generated and the bubble chart updated
UpdateGraphModeLoaded(data, m, names) ==
    LET arg == [type |-> "array", v |-> names]
        targetIndex == modeButtons[m]
        networkData == prepareNetworkDataForBubbleChart(data, arg)
        bubbleThrew == bubbleChartManager /\ Has(networkData, "threw")
    IN  /\ currentMode' = m
        /\ currentHW' = names
        /\ activeButtons' = IF targetIndex \in SwitchButtons THEN {targetIndex} ELSE {}
        /\ mode' = m
        /\ hwNames' = arg
        /\ IF container
           THEN /\ graph' = processReviewerData(data, m, arg)
                /\ WindowBecomes(updateNetworkInstance(
                        Window, generateGraph(data, m, arg), build))
           ELSE /\ instanceCalls' = <<>>
                /\ UNCHANGED <<graph, networkInstance, clickHandlers, constructions>>
        /\ bubbleData' = IF bubbleChartManager /\ ~bubbleThrew THEN networkData
                         ELSE bubbleData
        /\ loggedError' = (targetIndex \notin SwitchButtons \/ bubbleThrew)

\* a call of updateGraphMode(m) or updateGraphMode(m, names) from the page
UpdateGraphMode ==
    /\ \E m \in Modes, omitted \in BOOLEAN, given \in SelectedHWsSet :
        LET names == IF omitted THEN currentHW ELSE given
        IN  /\ omitted => given = <<>>
            /\ callArgs' = [mode |-> m, hwNames |-> names, omitted |-> omitted]
            /\ IF rawData = NoRawData
               THEN /\ NoRender
                    /\ UNCHANGED <<currentMode, currentHW, activeButtons, loggedError>>
               ELSE UpdateGraphModeLoaded(rawData, m, names)
    /\ alerted' = FALSE
    /\ thrown' = "none"
    /\ pc' = "updateGraphMode"
    /\ UNCHANGED <<rawData, assignments, returned, percentageStats, build, container,
                   clicked, qualityVars, reviewerCanvas, reviewerCharts, fetchState,
                   hwOptions, hwSelect, bubbleChartManager,
                   chartBtnVars>>

\* ClickGo with the graph regenerated in the mode 'all' whatever the current mode
ClickGoResetMode ==
    /\ IF hwSelect = <<>>
       THEN /\ alerted' = TRUE
            /\ NoRender
            /\ UNCHANGED <<currentMode, currentHW, activeButtons, loggedError, callArgs>>
       ELSE /\ alerted' = FALSE
            /\ callArgs' = [mode |-> "all", hwNames |-> hwSelect, omitted |-> FALSE]
            /\ IF rawData = NoRawData
               THEN /\ currentHW' = hwSelect
                    /\ NoRender
                    /\ UNCHANGED <<currentMode, activeButtons, loggedError>>
               ELSE UpdateGraphModeLoaded(rawData, "all", hwSelect)
    /\ thrown' = "none"
    /\ pc' = "go"
    /\ UNCHANGED <<rawData, assignments, returned, percentageStats, build, container,
                   clicked, qualityVars, reviewerCanvas, reviewerCharts, fetchState,
                   hwOptions, hwSelect, bubbleChartManager,
                   chartBtnVars>>

\* the click handler of the GO button
ClickGo ==
    /\ IF hwSelect = <<>>
       THEN /\ alerted' = TRUE
            /\ NoRender
            /\ UNCHANGED <<currentMode, currentHW, activeButtons, loggedError, callArgs>>
       ELSE /\ alerted' = FALSE
            /\ callArgs' = [mode |-> currentMode, hwNames |-> hwSelect, omitted |-> FALSE]
            /\ IF rawData = NoRawData
               THEN /\ currentHW' = hwSelect
                    /\ NoRender
                    /\ UNCHANGED <<currentMode, activeButtons, loggedError>>
               ELSE UpdateGraphModeLoaded(rawData, currentMode, hwSelect)
    /\ thrown' = "none"
    /\ pc' = "go"
    /\ UNCHANGED <<rawData, assignments, returned, percentageStats, build, container,
                   clicked, qualityVars, reviewerCanvas, reviewerCharts, fetchState,
                   hwOptions, hwSelect, bubbleChartManager,
                   chartBtnVars>>

\* the user changes the selection of the hw-select widget
SelectHWs ==
    /\ \E sel \in SelectedHWsSet :
        /\ \A i \in 1..Len(sel) : \E j \in 1..Len(hwOptions) : hwOptions[j] = sel[i]
        /\ sel # hwSelect
        /\ hwSelect' = sel
    /\ pc' = "select"
    /\ UNCHANGED <<rawData, hwNames, mode, assignments, returned, graph, networkInstance,
                   percentageStats, renderVars, bubbleData, clicked, thrown, qualityVars,
                   loggedError, reviewerCanvas, reviewerCharts, fetchState, currentMode,
                   currentHW, hwOptions, activeButtons, alerted, bubbleChartManager,
                   callArgs,
                   chartBtnVars>>

\* loadData resolves: the then-handler stores the data, fills the widget with the
\* sorted keys, all selected, and calls updateGraphMode('all', currentHW)
LoadDataOk ==
    /\ fetchState = "pending"
    /\ fetchState' = "ok"
    /\ \E data \in [Keys -> {<<>>}] \cup {[k \in D |-> <<r>>] : D \in SUBSET Keys, r \in TargetRecords} :
        /\ rawData' = data
        /\ hwOptions' = SortedKeys(data)
        /\ hwSelect' = SortedKeys(data)
        /\ callArgs' = [mode |-> "all", hwNames |-> SortedKeys(data), omitted |-> FALSE]
        /\ UpdateGraphModeLoaded(data, "all", SortedKeys(data))
    /\ alerted' = FALSE
    /\ thrown' = "none"
    /\ pc' = "loadData"
    /\ UNCHANGED <<assignments, returned, percentageStats, build, container, clicked,
                   qualityVars, reviewerCanvas, reviewerCharts, bubbleChartManager,
                   chartBtnVars>>

\* LoadDataFail with a fallback: the page goes on with an empty data set
LoadDataFailFallback ==
    /\ fetchState = "pending"
    /\ fetchState' \in {"rejected", "notOk"}
    /\ rawData' = [k \in Keys |-> <<>>]
    /\ loggedError' = TRUE
    /\ pc' = "loadData"
    /\ NoRender
    /\ UNCHANGED <<assignments, returned, percentageStats, build, container,
                   clicked, thrown, qualityVars, reviewerCanvas, reviewerCharts, currentMode,
                   currentHW, hwOptions, hwSelect, activeButtons, alerted,
                   bubbleChartManager, callArgs,
                   chartBtnVars>>

\* the fetch rejects, or answers with a response that is not ok: loadData throws
\* "No data source available" and the catch handler logs it
LoadDataFail ==
    /\ fetchState = "pending"
    /\ fetchState' \in {"rejected", "notOk"}
    /\ loggedError' = TRUE
    /\ pc' = "loadData"
    /\ NoRender
    /\ UNCHANGED <<rawData, assignments, returned, percentageStats, build, container,
                   clicked, thrown, qualityVars, reviewerCanvas, reviewerCharts, currentMode,
                   currentHW, hwOptions, hwSelect, activeButtons, alerted,
                   bubbleChartManager, callArgs,
                   chartBtnVars>>

\* the page from DOMContentLoaded on
InitPage ==
    /\ rawData = NoRawData
    /\ hwNames = [type |-> "array", v |-> <<>>]
    /\ build \in Builds
    /\ mode = "none"
    /\ assignments = None
    /\ returned = None
    /\ graph = None
    /\ networkInstance = None
    /\ percentageStats = None
    /\ pc = "start"
    /\ Idle
    /\ NoQuality
    /\ loggedError = FALSE
    /\ reviewerCanvas = TRUE
    /\ reviewerCharts = <<>>
    /\ fetchState = "pending"
    /\ currentMode = "all"
    /\ currentHW = <<>>
    /\ hwOptions \in {<<>>, <<"HW1", "HW2">>}
    /\ hwSelect = <<>>
    /\ activeButtons \in {{}, {0}}
    /\ alerted = FALSE
    /\ bubbleChartManager \in BOOLEAN
    /\ callArgs = None
    /\ ChartsIdle

NextPage == LoadDataOk \/ LoadDataFail \/ UpdateGraphMode \/ ClickGo \/ SelectHWs

SpecPage == InitPage /\ [][NextPage]_vars

\* records of one reviewer with up to MaxRounds rounds, with or without feedback
RateRecords ==
    [Reviewer : {FirstReviewer}, Author : Authors,
     Round : UNION {[1..n -> LinkRounds] : n \in 0..MaxRounds}]

\* the graph and the bubble chart of one data set and one selection
InitRate ==
    /\ IsDataOver(rawData, RateRecords)
    /\ hwNames \in {[type |-> "array", v |-> sel] : sel \in SelectedHWsSet}
    /\ build = "static"
    /\ mode = "none"
    /\ assignments = None
    /\ returned = None
    /\ graph = None
    /\ networkInstance = None
    /\ percentageStats = None
    /\ pc = "start"
    /\ Idle
    /\ PageIdle
    /\ NoQuality

NextRate == GenerateGraph \/ PrepareNetworkDataForBubbleChart

SpecRate == InitRate /\ [][NextRate]_vars

(***************************************************************************)
(* initHwLabelChartEvents: the Generate and Download buttons of the charts. *)
(***************************************************************************)
\* what `await generateHwLabelChart()` / `await generateHwEnableLabelChart()` can
\* come back with: a chart, null, or an exception
GenerationOutcomes == {"chart", "null", "throws"}

\* ClickGenerate with the button left enabled
ClickGenerateNoDisable(c) ==
    /\ ~generateBtn[c].disabled
    /\ inFlight[c] < MaxInFlight
    /\ generateBtn' = [generateBtn EXCEPT ![c].textContent = "Generating..."]
    /\ inFlight' = [inFlight EXCEPT ![c] = @ + 1]
    /\ alerted' = FALSE
    /\ loggedError' = FALSE
    /\ pc' = "generate"
    /\ UNCHANGED <<rawData, hwNames, mode, assignments, returned, graph, networkInstance,
                   percentageStats, renderVars, bubbleData, clicked, thrown, qualityVars,
                   reviewerCanvas, reviewerCharts, fetchState, currentMode, currentHW,
                   hwOptions, hwSelect, activeButtons, bubbleChartManager, callArgs,
                   downloadBtn, currentChart, savedFile>>

\* a click on the Generate button of chart c, up to the await: a disabled button
\* gets no click
ClickGenerate(c) ==
    /\ ~generateBtn[c].disabled
    /\ inFlight[c] < MaxInFlight
    /\ generateBtn' = [generateBtn EXCEPT ![c] =
                            [disabled |-> TRUE, textContent |-> "Generating..."]]
    /\ inFlight' = [inFlight EXCEPT ![c] = @ + 1]
    /\ alerted' = FALSE
    /\ loggedError' = FALSE
    /\ pc' = "generate"
    /\ UNCHANGED <<rawData, hwNames, mode, assignments, returned, graph, networkInstance,
                   percentageStats, renderVars, bubbleData, clicked, thrown, qualityVars,
                   reviewerCanvas, reviewerCharts, fetchState, currentMode, currentHW,
                   hwOptions, hwSelect, activeButtons, bubbleChartManager, callArgs,
                   downloadBtn, currentChart, savedFile>>

\* the generation of chart c finishes and the handler goes on after its await: the
\* chart is stored and, if there is one, the Download button enabled; an exception
\* is logged and alerted; the finally block restores the Generate button
GenerationSettles(c) ==
    /\ inFlight[c] > 0
    /\ \E outcome \in GenerationOutcomes :
        /\ currentChart' = IF outcome = "throws" THEN currentChart
                           ELSE [currentChart EXCEPT ![c] = outcome]
        /\ downloadBtn' = IF outcome = "chart"
                          THEN [downloadBtn EXCEPT ![c].disabled = FALSE]
                          ELSE downloadBtn
        /\ loggedError' = (outcome = "throws")
        /\ alerted' = (outcome = "throws")
    /\ generateBtn' = [generateBtn EXCEPT ![c] =
                            [disabled |-> FALSE, textContent |-> GenerateLabel[c]]]
    /\ inFlight' = [inFlight EXCEPT ![c] = @ - 1]
    /\ pc' = "generated"
    /\ UNCHANGED <<rawData, hwNames, mode, assignments, returned, graph, networkInstance,
                   percentageStats, renderVars, bubbleData, clicked, thrown, qualityVars,
                   reviewerCanvas, reviewerCharts, fetchState, currentMode, currentHW,
                   hwOptions, hwSelect, activeButtons, bubbleChartManager, callArgs,
                   savedFile>>

\* a click on the Download button of chart c
ClickDownload(c) ==
    /\ ~downloadBtn[c].disabled
    /\ IF currentChart[c] = "chart"
       THEN savedFile' = DownloadName[c] /\ alerted' = FALSE
       ELSE alerted' = TRUE /\ UNCHANGED savedFile
    /\ loggedError' = FALSE
    /\ pc' = "download"
    /\ UNCHANGED <<rawData, hwNames, mode, assignments, returned, graph, networkInstance,
                   percentageStats, renderVars, bubbleData, clicked, thrown, qualityVars,
                   reviewerCanvas, reviewerCharts, fetchState, currentMode, currentHW,
                   hwOptions, hwSelect, activeButtons, bubbleChartManager, callArgs,
                   generateBtn, downloadBtn, currentChart, inFlight>>

\* the page with its chart buttons, the graph left aside
InitCharts ==
    /\ rawData = NoRawData
    /\ hwNames = [type |-> "array", v |-> <<>>]
    /\ build = "static"
    /\ mode = "none"
    /\ assignments = None
    /\ returned = None
    /\ graph = None
    /\ networkInstance = None
    /\ percentageStats = None
    /\ pc = "start"
    /\ Idle
    /\ PageIdle
    /\ NoQuality

NextCharts ==
    \E c \in Charts : ClickGenerate(c) \/ GenerationSettles(c) \/ ClickDownload(c)

SpecCharts == InitCharts /\ [][NextCharts]_vars

\* a generation that was started finishes: its promise settles and the handler
\* resumes
SpecChartsFair == SpecCharts /\ \A c \in Charts : WF_vars(GenerationSettles(c))

\* the first graph rendering of one data set
NextGraph == pc = "start" /\ GenerateGraph

SpecGraph == Init /\ [][NextGraph]_vars

(***************************************************************************)
(* What the claims speak about: the rounds of a data set, one by one.      *)
(***************************************************************************)
\* the homework keys a selection names
SelectedKeys(names) ==
    IF names.type = "string" THEN {names.v} ELSE {names.v[i] : i \in 1..Len(names.v)}

\* <<key, record, round>> of every round of the records of the keys K
RoundPositions(data, K) ==
    UNION { UNION { {<<h, i, j>> : j \in 1..Len(data[h][i].Round)} :
                    i \in {i \in 1..Len(data[h]) : Has(data[h][i], "Round")} } :
            h \in K \cap DOMAIN data }

RoundAt(data, p) == data[p[1]][p[2]].Round[p[3]]

ReviewerAt(data, p) == data[p[1]][p[2]].Reviewer

\* the data set with the round at p replaced by r
WithRound(data, p, r) == [data EXCEPT ![p[1]][p[2]].Round[p[3]] = r]

\* Feedback is present and has a character that is not white space
HasFeedback(round) ==
    /\ "Feedback" \in DOMAIN round
    /\ \E i \in 1..Len(round.Feedback) : round.Feedback[i] \notin {" ", "\t"}

\* the rounds with feedback that reviewer r wrote in the selected keys
ValidPositions(data, names, r) ==
    {p \in RoundPositions(data, SelectedKeys(names)) :
        ReviewerAt(data, p) = r /\ HasFeedback(RoundAt(data, p))}

\* all rounds of reviewer r in the selected keys
AssignedPositions(data, names, r) ==
    {p \in RoundPositions(data, SelectedKeys(names)) : ReviewerAt(data, p) = r}

RECURSIVE SumFlag(_, _, _)
SumFlag(data, P, f) ==
    IF P = {} THEN 0
    ELSE LET p == CHOOSE q \in P : TRUE
         IN  RoundAt(data, p)[f] + SumFlag(data, P \ {p}, f)

\* the node of reviewer r in a node sequence
NodeOf(nodes, r) == nodes[CHOOSE i \in 1..Len(nodes) : nodes[i].id = r]

FlagOfMode(m) ==
    CASE m = "relevance" -> "Relevance"
      [] m = "concreteness" -> "Concreteness"
      [] m = "constructive" -> "Constructive"

(***************************************************************************)
(* Claims about processReviewerData and generateGraph.                     *)
(***************************************************************************)

\* C1: with label flags that are 0 or 1, every node returned by
\* processReviewerData has 0 <= meaningfulScore <= 100.
C1_ScoreBound ==
    pc = "processReviewerData" =>
        \A i \in 1..Len(graph.nodes) :
            /\ RatLe(Num(0), graph.nodes[i].meaningfulScore)
            /\ RatLe(graph.nodes[i].meaningfulScore, Num(100))

\* a reviewer with two rounds of feedback, all flags set, reaches the bound 100
C1_Witness ==
    /\ pc = "processReviewerData"
    /\ \E i \in 1..Len(graph.nodes) :
        /\ Cardinality(ValidPositions(rawData, hwNames, graph.nodes[i].id)) = 2
        /\ graph.nodes[i].meaningfulScore = Num(100)

\* C2 as stated: completionRate is in [0, 1] and is 1 exactly when every assigned
\* round of the reviewer has feedback, a reviewer without any round included.
C2_Original ==
    pc = "generateGraph" =>
        \A i \in 1..Len(networkInstance.nodes) :
            LET v == networkInstance.nodes[i]
            IN  /\ RatLe(Num(0), v.completionRate)
                /\ RatLe(v.completionRate, Num(1))
                /\ v.completionRate = Num(1)
                   <=> \A p \in AssignedPositions(rawData, hwNames, v.id) :
                          HasFeedback(RoundAt(rawData, p))

\* C2 amended: completionRate is in [0, 1]; it is 1 exactly when the reviewer has
\* at least one round and every round has feedback; without any round it is 0.
C2_CompletionRate ==
    pc = "generateGraph" =>
        \A i \in 1..Len(networkInstance.nodes) :
            LET v == networkInstance.nodes[i]
                assigned == AssignedPositions(rawData, hwNames, v.id)
            IN  /\ RatLe(Num(0), v.completionRate)
                /\ RatLe(v.completionRate, Num(1))
                /\ v.completionRate = Num(1)
                   <=> /\ assigned # {}
                       /\ \A p \in assigned : HasFeedback(RoundAt(rawData, p))
                /\ assigned = {} => v.completionRate = Num(0)

\* one reviewer with two rounds of feedback next to one without any round
C2_Witness ==
    /\ pc = "generateGraph"
    /\ \E i, j \in 1..Len(networkInstance.nodes) :
        /\ networkInstance.nodes[i].completionRate = Num(1)
        /\ Cardinality(AssignedPositions(rawData, hwNames, networkInstance.nodes[i].id)) = 2
        /\ AssignedPositions(rawData, hwNames, networkInstance.nodes[j].id) = {}

\* C3: raising one flag of one aggregated round with feedback from 0 to 1 strictly
\* raises the reviewer's score in mode all and in the mode of that flag, and never
\* lowers the reviewer's meaningfulScore.
C3_Monotone ==
    pc = "generateGraph" =>
        \A p \in RoundPositions(rawData, SelectedKeys(hwNames)) :
            \A f \in FlagNames :
                LET round == RoundAt(rawData, p)
                    r == ReviewerAt(rawData, p)
                    raised == WithRound(rawData, p, [round EXCEPT ![f] = 1])
                IN  (HasFeedback(round) /\ round[f] = 0) =>
                        /\ (mode = "all" \/ FlagOfMode(mode) = f) =>
                              RatLt(NodeOf(networkInstance.nodes, r).score,
                                    NodeOf(generateGraph(raised, mode, hwNames).nodes, r).score)
                        /\ RatLe(NodeOf(graph.nodes, r).meaningfulScore,
                                 NodeOf(processReviewerData(raised, mode, hwNames).nodes, r)
                                    .meaningfulScore)

\* a single-label rendering of a reviewer one of whose two rounds with feedback
\* has the flag of the mode at 0
C3_Witness ==
    /\ pc = "generateGraph"
    /\ mode = "concreteness"
    /\ \E p \in RoundPositions(rawData, SelectedKeys(hwNames)) :
        /\ HasFeedback(RoundAt(rawData, p))
        /\ RoundAt(rawData, p).Concreteness = 0
        /\ Cardinality(ValidPositions(rawData, hwNames, ReviewerAt(rawData, p))) = 2

\* C4: processReviewerData returns no nodes and no links when every selected key
\* is absent from rawData or maps to an empty array (the empty data set with the
\* empty selection included).
C4_EmptyInput ==
    (/\ pc = "processReviewerData"
     /\ \A h \in SelectedKeys(hwNames) : h \in DOMAIN rawData => rawData[h] = <<>>)
    => graph = [nodes |-> <<>>, links |-> <<>>]

\* two keys are selected: one maps to an empty array, the other is absent
C4_Witness ==
    /\ pc = "processReviewerData"
    /\ hwNames = [type |-> "array", v |-> <<"HW1", "HW2">>]
    /\ DOMAIN rawData = {"HW1"}
    /\ rawData["HW1"] = <<>>
    /\ graph = [nodes |-> <<>>, links |-> <<>>]

\* C5: labelCounts are the sums of the flags over the reviewer's rounds with
\* feedback, and meaningfulScore is min(sum of 30*R + 30*C + 40*K over those
\* rounds / their number, 100), or 0 without such a round.
C5_Tally ==
    pc = "processReviewerData" =>
        \A i \in 1..Len(graph.nodes) :
            LET node == graph.nodes[i]
                valid == ValidPositions(rawData, hwNames, node.id)
                sumR == SumFlag(rawData, valid, "Relevance")
                sumC == SumFlag(rawData, valid, "Concreteness")
                sumK == SumFlag(rawData, valid, "Constructive")
                weighted == 30 * sumR + 30 * sumC + 40 * sumK
            IN  /\ node.labelCounts.relevance = sumR
                /\ node.labelCounts.concreteness = sumC
                /\ node.labelCounts.constructive = sumK
                /\ valid = {} => node.meaningfulScore = Num(0)
                /\ valid # {} =>
                     /\ node.meaningfulScore.d # 0
                     /\ IF weighted <= 100 * Cardinality(valid)
                        THEN node.meaningfulScore.n * Cardinality(valid)
                                = weighted * node.meaningfulScore.d
                        ELSE node.meaningfulScore = Num(100)

\* the scenario of the specification: one round with feedback and flags 1, 0, 1
\* next to a round without feedback whose flags are all 1 gives the score 70
C5_Witness ==
    /\ pc = "processReviewerData"
    /\ \E i \in 1..Len(graph.nodes) :
        /\ graph.nodes[i].feedbacks = <<Str(<<"o", "k">>), EmptyStr>>
        /\ graph.nodes[i].labelCounts = [relevance |-> 1, concreteness |-> 0, constructive |-> 1]
        /\ graph.nodes[i].meaningfulScore = Num(70)
        /\ \E p \in AssignedPositions(rawData, hwNames, graph.nodes[i].id) :
            /\ ~HasFeedback(RoundAt(rawData, p))
            /\ RoundAt(rawData, p).Concreteness = 1

\* C6 as stated: for processReviewerData, calculateHwLabelFrequency and
\* calculateReviewerLabelAverages alike, changing the label values of a round
\* without feedback leaves the result unchanged.
C6_Original ==
    /\ pc = "processReviewerData" =>
        \A p \in RoundPositions(rawData, DOMAIN rawData) :
            ~HasFeedback(RoundAt(rawData, p)) =>
                \A fl \in [FlagNames -> FlagSet] :
                    processReviewerData(
                        WithRound(rawData, p, [Feedback |-> RoundAt(rawData, p).Feedback] @@ fl),
                        "all", hwNames) = graph
    /\ pc = "calculateHwLabelFrequency" =>
        \A p \in RoundPositions(rawData, DOMAIN rawData) :
            ~HasFeedback(RoundAt(rawData, p)) =>
                \A fl \in [FlagNames -> FlagSet] :
                    calculateHwLabelFrequency(
                        WithRound(rawData, p, [Feedback |-> RoundAt(rawData, p).Feedback] @@ fl))
                    = percentageStats
    /\ pc = "calculateReviewerLabelAverages" =>
        \A i \in 1..Len(assignments) :
            Has(assignments[i], "Round") =>
                \A j \in 1..Len(assignments[i].Round) :
                    ~HasFeedback(assignments[i].Round[j]) =>
                        \A l \in LabelSet :
                            LET changed ==
                                    calculateReviewerLabelAverages(
                                        [assignments EXCEPT ![i].Round[j] =
                                            [Feedback |-> assignments[i].Round[j].Feedback,
                                             Label |-> l]])
                            IN  \A k \in 1..Len(returned) :
                                    changed[k].avgLabel = returned[k].avgLabel

\* C6 amended: for processReviewerData, changing the Relevance, Concreteness and
\* Constructive values of a round whose Feedback is empty or only white space
\* leaves the returned nodes and links unchanged.
C6_NoFeedbackNoTally ==
    pc = "processReviewerData" =>
        \A p \in RoundPositions(rawData, DOMAIN rawData) :
            ~HasFeedback(RoundAt(rawData, p)) =>
                \A fl \in [FlagNames -> FlagSet] :
                    processReviewerData(
                        WithRound(rawData, p, [Feedback |-> RoundAt(rawData, p).Feedback] @@ fl),
                        "all", hwNames) = graph

\* an aggregated round of white space only whose flags are all 1, next to a round
\* with feedback of the same reviewer
C6_Witness ==
    /\ pc = "processReviewerData"
    /\ \E p \in RoundPositions(rawData, SelectedKeys(hwNames)) :
        /\ RoundAt(rawData, p) = [Feedback |-> <<" ">>, Relevance |-> 1,
                                  Concreteness |-> 1, Constructive |-> 1]
        /\ ValidPositions(rawData, hwNames, ReviewerAt(rawData, p)) # {}
        /\ NodeOf(graph.nodes, ReviewerAt(rawData, p)).labelCounts.relevance = 0

(***************************************************************************)
(* Claims about calculateHwLabelFrequency.                                 *)
(***************************************************************************)
\* the rounds of homework key h that have all three flags
CountedPositions(data, h) ==
    {p \in RoundPositions(data, {h}) : FlagNames \subseteq DOMAIN RoundAt(data, p)}

\* C7: a round counts in the total of its key only if it has all three flags; each
\* percentage is the number of counted rounds whose flag is exactly 1, over the
\* total, times 100; everything is 0 when no round is counted.
C7_Frequency ==
    pc = "calculateHwLabelFrequency" =>
        /\ DOMAIN percentageStats = DOMAIN rawData
        /\ \A h \in DOMAIN rawData :
            LET counted == CountedPositions(rawData, h)
                st == percentageStats[h]
                ones(f) == Cardinality({p \in counted : RoundAt(rawData, p)[f] = 1})
            IN  /\ st.total = Cardinality(counted)
                /\ counted = {} =>
                     st = [relevance |-> Num(0), concreteness |-> Num(0),
                           constructive |-> Num(0), total |-> 0]
                /\ counted # {} =>
                     /\ st.relevance.d # 0 /\ st.concreteness.d # 0 /\ st.constructive.d # 0
                     /\ st.relevance.n * st.total = 100 * ones("Relevance") * st.relevance.d
                     /\ st.concreteness.n * st.total
                            = 100 * ones("Concreteness") * st.concreteness.d
                     /\ st.constructive.n * st.total
                            = 100 * ones("Constructive") * st.constructive.d

\* a key with one complete round and one round that lacks only Constructive while
\* its other flags are 1
C7_Witness ==
    /\ pc = "calculateHwLabelFrequency"
    /\ \E h \in DOMAIN rawData :
        /\ percentageStats[h].total = 1
        /\ \E p \in RoundPositions(rawData, {h}) :
            /\ DOMAIN RoundAt(rawData, p) = {"Feedback", "Relevance", "Concreteness"}
            /\ RoundAt(rawData, p).Relevance = 1
            /\ RoundAt(rawData, p).Concreteness = 1

\* homework key h holds exactly two rounds: one with the flags 1, 1, 1 and one
\* that has only Relevance
IsScenario8(data, h) ==
    LET P == RoundPositions(data, {h})
    IN  /\ Cardinality(P) = 2
        /\ \E p, q \in P :
            /\ p # q
            /\ FlagNames \subseteq DOMAIN RoundAt(data, p)
            /\ \A f \in FlagNames : RoundAt(data, p)[f] = 1
            /\ DOMAIN RoundAt(data, q) \cap FlagNames = {"Relevance"}

\* C8 as stated: the scenario gives total 1, relevance 100, concreteness 0 and
\* constructive 0.
C8_Original ==
    pc = "calculateHwLabelFrequency" =>
        \A h \in DOMAIN rawData :
            IsScenario8(rawData, h) =>
                percentageStats[h] = [total |-> 1, relevance |-> Num(100),
                                      concreteness |-> Num(0), constructive |-> Num(0)]

\* C8 amended: the scenario gives total 1 and 100 for all three percentages,
\* because the only counted round has every flag at 1.
C8_Scenario ==
    pc = "calculateHwLabelFrequency" =>
        \A h \in DOMAIN rawData :
            IsScenario8(rawData, h) =>
                percentageStats[h] = [total |-> 1, relevance |-> Num(100),
                                      concreteness |-> Num(100), constructive |-> Num(100)]

C8_Witness ==
    /\ pc = "calculateHwLabelFrequency"
    /\ \E h \in DOMAIN rawData :
        /\ IsScenario8(rawData, h)
        /\ \E p \in RoundPositions(rawData, {h}) :
            DOMAIN RoundAt(rawData, p) = {"Feedback", "Relevance"}
            /\ RoundAt(rawData, p).Relevance = 1

(***************************************************************************)
(* Claims about calculateReviewerLabelAverages.                            *)
(***************************************************************************)
\* what parseFloat is expected to give for the labels of the model
ExpectedLabel(round) ==
    IF "Label" \notin DOMAIN round THEN NaN
    ELSE CASE round.Label = <<"1">> -> Num(1)
           [] round.Label = <<"0", ".", "5">> -> Rat(1, 2)
           [] round.Label = <<"2", "x">> -> Num(2)
           [] OTHER -> NaN

\* a reviewer name without the white space around it, in upper case
CanonicalName(name) ==
    LET inked == {i \in 1..Len(name) : name[i] \notin {" ", "\t"}}
        first == CHOOSE i \in inked : \A k \in inked : i <= k
        last == CHOOSE i \in inked : \A k \in inked : k <= i
        upper == [c \in {"a", "b", "c"} |-> IF c = "a" THEN "A" ELSE IF c = "b" THEN "B" ELSE "C"]
    IN  IF inked = {} THEN <<>>
        ELSE [i \in 1..(last - first + 1) |->
                IF name[first + i - 1] \in DOMAIN upper THEN upper[name[first + i - 1]]
                ELSE name[first + i - 1]]

\* <<record, round>> of the rounds with a parseable Label of the records whose
\* reviewer is the reviewer of record i
LabelledPositions(as, i) ==
    UNION { {<<k, j>> : j \in {j \in 1..Len(as[k].Round) : ~isNaN(ExpectedLabel(as[k].Round[j]))}} :
            k \in {k \in 1..Len(as) :
                      /\ Has(as[k], "Round")
                      /\ CanonicalName(as[k].Reviewer) = CanonicalName(as[i].Reviewer)} }

RECURSIVE SumLabels(_, _)
SumLabels(as, L) ==
    IF L = {} THEN Num(0)
    ELSE LET q == CHOOSE x \in L : TRUE
         IN  RatAdd(ExpectedLabel(as[q[1]].Round[q[2]]), SumLabels(as, L \ {q}))

\* C9: every record of a reviewer none of whose rounds carries a numeric Label
\* gets avgLabel = NaN, a reviewer whose records all lack a Round array included,
\* and the call completes: every record is annotated.
C9_Sentinel ==
    pc = "calculateReviewerLabelAverages" =>
        \A i \in 1..Len(assignments) :
            /\ Has(assignments[i], "avgLabel")
            /\ LabelledPositions(assignments, i) = {} => isNaN(assignments[i].avgLabel)

\* a record without a Round array whose reviewer, spelled differently, has another
\* record with rounds, none of them with a parseable Label
C9_Witness ==
    /\ pc = "calculateReviewerLabelAverages"
    /\ \E i, k \in 1..Len(assignments) :
        /\ ~Has(assignments[i], "Round")
        /\ Has(assignments[k], "Round")
        /\ assignments[k].Round # <<>>
        /\ assignments[i].Reviewer # assignments[k].Reviewer
        /\ LabelledPositions(assignments, i) = LabelledPositions(assignments, k)
        /\ LabelledPositions(assignments, i) = {}
        /\ isNaN(assignments[i].avgLabel) /\ isNaN(assignments[k].avgLabel)
        /\ CanonicalName(assignments[i].Reviewer) = CanonicalName(assignments[k].Reviewer)

\* C10: the call returns the array it was given, the records unchanged and in the
\* same order but for the added avgLabel, which is the sum of the parseable Labels
\* over their number, taken over all records of the same trimmed, upper-cased
\* Reviewer (NaN when there is none), also for a record without a Round array.
C10_Averages ==
    [][pc' = "calculateReviewerLabelAverages" =>
        /\ returned' = assignments'
        /\ Len(returned') = Len(assignments)
        /\ \A i \in 1..Len(assignments) :
            LET L == LabelledPositions(assignments, i)
            IN  /\ DOMAIN returned'[i] = DOMAIN assignments[i] \cup {"avgLabel"}
                /\ \A f \in DOMAIN assignments[i] \ {"avgLabel"} :
                        returned'[i][f] = assignments[i][f]
                /\ returned'[i].avgLabel
                     = IF L = {} THEN NaN
                       ELSE RatDiv(SumLabels(assignments, L), Num(Cardinality(L)))
      ]_vars

\* two records of one reviewer spelled "A" and " a", one without a Round array,
\* both annotated with the average 3/4 of the labels "1" and "0.5"
C10_Witness ==
    /\ pc = "calculateReviewerLabelAverages"
    /\ \E i, k \in 1..Len(returned) :
        /\ returned[i].Reviewer = <<"A">>
        /\ returned[k].Reviewer = <<" ", "a">>
        /\ ~Has(returned[i], "Round")
        /\ returned[i].avgLabel = Rat(3, 4)
        /\ returned[k].avgLabel = Rat(3, 4)

(***************************************************************************)
(* Claims about the nodes and links of processReviewerData.                *)
(***************************************************************************)

\* C11: for every node returned by processReviewerData, the length of feedbacks
\* equals totalRounds, and both equal the number of rounds of the reviewer's
\* records in the selected homework keys, rounds without feedback included.
C11_TotalRounds ==
    pc = "processReviewerData" =>
        \A i \in 1..Len(graph.nodes) :
            LET node == graph.nodes[i]
            IN  /\ Len(node.feedbacks) = node.totalRounds
                /\ node.totalRounds
                     = Cardinality(AssignedPositions(rawData, hwNames, node.id))

\* a reviewer whose two rounds lie in two records under two selected keys, one of
\* them without feedback
C11_Witness ==
    /\ pc = "processReviewerData"
    /\ \E i \in 1..Len(graph.nodes) :
        /\ graph.nodes[i].totalRounds = 2
        /\ \E p, q \in AssignedPositions(rawData, hwNames, graph.nodes[i].id) :
            /\ p[1] # q[1]
            /\ ~HasFeedback(RoundAt(rawData, p))
            /\ HasFeedback(RoundAt(rawData, q))

\* <<key, record>> of the records of the selected homework keys, key by key in
\* the order of the selection and record by record within a key
RECURSIVE SelectedRecords(_, _)
SelectedRecords(data, keys) ==
    IF keys = <<>> THEN <<>>
    ELSE (IF Head(keys) \in DOMAIN data
          THEN [i \in 1..Len(data[Head(keys)]) |-> <<Head(keys), i>>]
          ELSE <<>>)
         \o SelectedRecords(data, Tail(keys))

\* the selection as a sequence of keys
SelectionOf(names) == IF names.type = "string" THEN <<names.v>> ELSE names.v

RecordAt(data, q) == data[q[1]][q[2]]

\* C12: processReviewerData emits one link per record of the selected keys, in
\* record order, with from = Reviewer, to = Author and hwName = the key; repeated
\* reviewer-author pairs are kept, so there are as many links as records.
C12_Links ==
    pc = "processReviewerData" =>
        LET recs == SelectedRecords(rawData, SelectionOf(hwNames))
        IN  /\ Len(graph.links) = Len(recs)
            /\ Len(graph.links)
                 = Cardinality({<<h, i>> \in Keys \X (1..MaxRecs) :
                                   /\ h \in SelectedKeys(hwNames) \cap DOMAIN rawData
                                   /\ i <= Len(rawData[h])})
            /\ \A k \in 1..Len(recs) :
                /\ graph.links[k].from = RecordAt(rawData, recs[k]).Reviewer
                /\ graph.links[k].to = RecordAt(rawData, recs[k]).Author
                /\ graph.links[k].hwName = recs[k][1]

\* one key holds two records of the same reviewer and author, followed in the
\* links by nothing else
C12_Witness ==
    /\ pc = "processReviewerData"
    /\ Len(graph.links) = 2
    /\ graph.links[1].from = graph.links[2].from
    /\ graph.links[1].to = graph.links[2].to
    /\ graph.links[1].hwName = graph.links[2].hwName
    /\ Len(rawData[graph.links[1].hwName]) = 2

\* C13: completedAll of a link is true exactly when the Round of its record is an
\* array of at least 3 rounds; a record whose Round is not an array gives
\* completedAll = false and adds no round to the node of its reviewer.
C13_CompletedAll ==
    pc = "processReviewerData" =>
        LET recs == SelectedRecords(rawData, SelectionOf(hwNames))
        IN  /\ Len(graph.links) = Len(recs)
            /\ \A k \in 1..Len(recs) :
                LET rec == RecordAt(rawData, recs[k])
                    others == {q \in 1..Len(recs) :
                                  /\ RecordAt(rawData, recs[q]).Reviewer = rec.Reviewer
                                  /\ "Round" \in DOMAIN RecordAt(rawData, recs[q])}
                IN  /\ graph.links[k].completedAll
                       <=> ("Round" \in DOMAIN rec /\ Len(rec.Round) >= 3)
                    /\ "Round" \notin DOMAIN rec =>
                         /\ ~graph.links[k].completedAll
                         /\ others = {} =>
                              /\ NodeOf(graph.nodes, rec.Reviewer).totalRounds = 0
                              /\ NodeOf(graph.nodes, rec.Reviewer).feedbacks = <<>>
                         /\ NodeOf(graph.nodes, rec.Reviewer).totalRounds
                              = Cardinality(AssignedPositions(rawData, hwNames, rec.Reviewer))

\* a record with exactly three rounds next to a record of the same reviewer whose
\* Round is a string of three characters
C13_Witness ==
    /\ pc = "processReviewerData"
    /\ Len(graph.links) = 2
    /\ graph.links[1].completedAll
    /\ ~graph.links[2].completedAll
    /\ graph.links[1].from = graph.links[2].from
    /\ NodeOf(graph.nodes, graph.links[1].from).totalRounds = 3
    /\ \E h \in DOMAIN rawData : \E i \in 1..Len(rawData[h]) :
        /\ "RoundNonArray" \in DOMAIN rawData[h][i]
        /\ Len(rawData[h][i].RoundNonArray.s) = 3

\* C14: processReviewerData returns one node per distinct raw Reviewer string of
\* the records of the selected keys: the ids are pairwise distinct, ids that
\* differ in case stay apart, and a node gathers the rounds of all records of
\* its Reviewer over all selected keys.
C14_Nodes ==
    pc = "processReviewerData" =>
        LET recs == SelectedRecords(rawData, SelectionOf(hwNames))
        IN  /\ {graph.nodes[i].id : i \in 1..Len(graph.nodes)}
                 = {RecordAt(rawData, recs[k]).Reviewer : k \in 1..Len(recs)}
            /\ \A i, j \in 1..Len(graph.nodes) :
                 graph.nodes[i].id = graph.nodes[j].id => i = j
            /\ \A i \in 1..Len(graph.nodes) :
                LET node == graph.nodes[i]
                    valid == ValidPositions(rawData, hwNames, node.id)
                IN  /\ Len(node.feedbacks)
                         = Cardinality(AssignedPositions(rawData, hwNames, node.id))
                    /\ NonEmptyCount(node.feedbacks) = Cardinality(valid)
                    /\ node.labelCounts.relevance = SumFlag(rawData, valid, "Relevance")
                    /\ node.labelCounts.concreteness = SumFlag(rawData, valid, "Concreteness")
                    /\ node.labelCounts.constructive = SumFlag(rawData, valid, "Constructive")

\* the reviewers "A" and "a" have one record each, under different selected keys,
\* and each of the two nodes holds the rounds of its own record only
C14_Witness ==
    /\ pc = "processReviewerData"
    /\ Len(graph.nodes) = 2
    /\ Len(graph.links) = 2
    /\ graph.links[1].hwName # graph.links[2].hwName
    /\ NodeOf(graph.nodes, <<"A">>).totalRounds = 1
    /\ NodeOf(graph.nodes, <<"a">>).totalRounds = 3
    /\ NodeOf(graph.nodes, <<"a">>).labelCounts.relevance = 2

(***************************************************************************)
(* Claims about getAvgLabelQuality.                                        *)
(***************************************************************************)
\* what parseFloat(Label) || 0 is expected to give for the labels of the model
ExpectedQualityLabel(round) ==
    IF "Label" \notin DOMAIN round THEN Num(0)
    ELSE CASE round.Label = <<"2">> -> Num(2)
           [] round.Label = <<"0", ".", "5">> -> Rat(1, 2)
           [] round.Label = <<"-", "1">> -> Num(-1)
           [] round.Label = <<"I", "n", "f", "i", "n", "i", "t", "y">> -> Infinity
           [] round.Label = <<"-", "I", "n", "f", "i", "n", "i", "t", "y">> -> NegInfinity
           [] OTHER -> Num(0)

\* the places of the rounds with feedback in an array of rounds
QualityValid(rs) == {i \in 1..Len(rs) : HasFeedback(rs[i])}

\* C16: getAvgLabelQuality returns a number in [0, 1]: 0 when rounds is not an
\* array, is empty or has no round with feedback, and otherwise the mean of
\* Label (0 for a non-numeric one) over the rounds with feedback, clamped to
\* [0, 1].
C16_Original ==
    pc = "getAvgLabelQuality" =>
        /\ RatLe(Num(0), avgLabelQuality)
        /\ RatLe(avgLabelQuality, Num(1))
        /\ (roundsArg.kind # "array" \/ QualityValid(roundsArg.v) = {})
             => avgLabelQuality = Num(0)

\* C16 for labels that are finite: the result is in [0, 1], it is 0 without a
\* round with feedback, 1 when the labels of the rounds with feedback sum to
\* more than their number, 0 when they sum to less than 0, and their mean
\* otherwise.
C16_FiniteLabels ==
    (/\ pc = "getAvgLabelQuality"
     /\ roundsArg.kind = "array"
     /\ \A i \in QualityValid(roundsArg.v) :
            ~IsInfinite(ExpectedQualityLabel(roundsArg.v[i])))
    => LET valid == QualityValid(roundsArg.v)
           RECURSIVE Sum(_)
           Sum(V) == IF V = {} THEN Num(0)
                     ELSE LET i == CHOOSE k \in V : TRUE
                          IN  RatAdd(ExpectedQualityLabel(roundsArg.v[i]), Sum(V \ {i}))
           mean == RatDiv(Sum(valid), Num(Cardinality(valid)))
       IN  /\ RatLe(Num(0), avgLabelQuality) /\ RatLe(avgLabelQuality, Num(1))
           /\ valid = {} => avgLabelQuality = Num(0)
           /\ valid # {} =>
                avgLabelQuality = IF RatLt(Num(1), mean) THEN Num(1)
                                  ELSE IF RatLt(mean, Num(0)) THEN Num(0)
                                  ELSE mean

(***************************************************************************)
(* Claims about the score, the colour and the size of generateGraph.       *)
(***************************************************************************)

\* C17: with flags that are 0 or 1, the score of a node is 0 when the reviewer
\* has no round with feedback, the mean of the three label counts over the
\* number of rounds with feedback in mode all, and the label count of the mode
\* over that number otherwise; no label count exceeds the number of rounds with
\* feedback and 0 <= score <= 1.
C17_Score ==
    pc = "generateGraph" =>
        \A i \in 1..Len(networkInstance.nodes) :
            LET v == networkInstance.nodes[i]
                valid == ValidPositions(rawData, hwNames, v.id)
                total == Cardinality(valid)
                sumR == SumFlag(rawData, valid, "Relevance")
                sumC == SumFlag(rawData, valid, "Concreteness")
                sumK == SumFlag(rawData, valid, "Constructive")
                counts == NodeOf(graph.nodes, v.id).labelCounts
            IN  /\ RatLe(Num(0), v.score) /\ RatLe(v.score, Num(1))
                /\ counts.relevance <= total
                /\ counts.concreteness <= total
                /\ counts.constructive <= total
                /\ total = 0 => v.score = Num(0)
                /\ total > 0 =>
                     /\ v.score.d > 0
                     /\ IF mode = "all"
                        THEN v.score.n * 3 * total = (sumR + sumC + sumK) * v.score.d
                        ELSE v.score.n * total
                               = SumFlag(rawData, valid, FlagOfMode(mode)) * v.score.d

\* mode all with a reviewer whose two rounds with feedback carry five of the six
\* flags: the score is 5/6
C17_Witness ==
    /\ pc = "generateGraph"
    /\ mode = "all"
    /\ \E i \in 1..Len(networkInstance.nodes) :
        /\ networkInstance.nodes[i].score = Rat(5, 6)
        /\ Cardinality(ValidPositions(rawData, hwNames, networkInstance.nodes[i].id)) = 2

\* C19: the size of every node of generateGraph is 15 + 35 * completionRate, lies
\* in [15, 50] and is the same in all four modes; it is fixed by the number of the
\* reviewer's rounds and the number of those with feedback, which no flag and no
\* score enters.
C19_Size ==
    pc = "generateGraph" =>
        LET inMode == [m \in Modes \ {mode} |-> generateGraph(rawData, m, hwNames).nodes]
        IN
        \A i \in 1..Len(networkInstance.nodes) :
            LET v == networkInstance.nodes[i]
                assigned == Cardinality(AssignedPositions(rawData, hwNames, v.id))
                valid == Cardinality(ValidPositions(rawData, hwNames, v.id))
            IN  /\ RatLe(Num(15), v.value) /\ RatLe(v.value, Num(50))
                /\ v.value = RatAdd(Num(15), RatMul(Num(35), v.completionRate))
                /\ assigned = 0 => v.value = Num(15)
                /\ assigned > 0 =>
                     /\ v.value.d > 0
                     /\ v.value.n * assigned = (15 * assigned + 35 * valid) * v.value.d
                /\ \A m \in Modes \ {mode} : inMode[m][i].value = v.value

\* a reviewer with feedback in one of two rounds, so of size 65/2, whose score in
\* the mode of the rendering is 1
C19_Witness ==
    /\ pc = "generateGraph"
    /\ mode = "relevance"
    /\ \E i \in 1..Len(networkInstance.nodes) :
        /\ networkInstance.nodes[i].value = Rat(65, 2)
        /\ networkInstance.nodes[i].score = Num(1)
        /\ networkInstance.nodes[i].completionRate = Rat(1, 2)

\* the place (from 0) of a colour in the palette of mode m
PaletteIndex(m, color) == (CHOOSE k \in 1..4 : colorConfig[m][k] = color) - 1

\* C18: the colour of a node is the one at index 0 of the palette of the mode for
\* a score in [0, 0.25), 1 for [0.25, 0.5), 2 for [0.5, 0.75) and 3 for
\* [0.75, 1]; the scores 0.25, 0.5 and 0.75 fall in the higher tier, and raising
\* a flag of a round with feedback never lowers the tier.
C18_Tiers ==
    pc = "generateGraph" =>
        \A i \in 1..Len(networkInstance.nodes) :
            LET v == networkInstance.nodes[i]
                valid == ValidPositions(rawData, hwNames, v.id)
                den == IF mode = "all" THEN 3 * Cardinality(valid) ELSE Cardinality(valid)
                num == IF mode = "all"
                       THEN SumFlag(rawData, valid, "Relevance")
                            + SumFlag(rawData, valid, "Concreteness")
                            + SumFlag(rawData, valid, "Constructive")
                       ELSE SumFlag(rawData, valid, FlagOfMode(mode))
                index == IF den = 0 \/ 4 * num < den THEN 0
                         ELSE IF 4 * num < 2 * den THEN 1
                         ELSE IF 4 * num < 3 * den THEN 2
                         ELSE 3
            IN  /\ \E k \in 1..4 : colorConfig[mode][k] = v.color
                /\ PaletteIndex(mode, v.color) = index
                /\ \A p \in valid : \A f \in FlagNames :
                     RoundAt(rawData, p)[f] = 0 =>
                        LET raised == WithRound(rawData, p, [RoundAt(rawData, p) EXCEPT ![f] = 1])
                        IN  PaletteIndex(mode, NodeOf(generateGraph(raised, mode, hwNames).nodes,
                                                      v.id).color) >= index

\* a reviewer with four rounds with feedback, one of them relevant: the score is
\* exactly 0.25 and the colour is the second of the relevance palette
C18_Witness ==
    /\ pc = "generateGraph"
    /\ mode = "relevance"
    /\ Len(networkInstance.nodes) = 1
    /\ networkInstance.nodes[1].score = Rat(1, 4)
    /\ networkInstance.nodes[1].color = "#FFD753"
    /\ Cardinality(ValidPositions(rawData, hwNames, networkInstance.nodes[1].id)) = 4

(***************************************************************************)
(* Claims about records whose Round is not an array.                       *)
(***************************************************************************)
\* some record of the data set has a Round that is not an array
HasMalformedRound(data) ==
    \E h \in DOMAIN data : \E i \in 1..Len(data[h]) : "Round" \notin DOMAIN data[h][i]

\* the rounds of the records of the data set, all keys together
AllRoundsCount(data) == Cardinality(RoundPositions(data, DOMAIN data))

\* C15: a record whose Round is not an array (missing, null, a string, a number,
\* an object) is never fatal: processReviewerData, calculateReviewerLabelAverages,
\* prepareNetworkDataForBubbleChart and the calculateStudentStats of the click
\* handler complete without throwing and count no round for it.
C15_Original ==
    /\ thrown = "none"
    /\ pc = "processReviewerData" =>
         \A i \in 1..Len(graph.nodes) :
            graph.nodes[i].totalRounds
              = Cardinality(AssignedPositions(rawData, hwNames, graph.nodes[i].id))
    /\ pc = "calculateReviewerLabelAverages" =>
         \A i \in 1..Len(returned) : "avgLabel" \in DOMAIN returned[i]
    /\ pc = "prepareNetworkDataForBubbleChart" =>
         \A i \in 1..Len(bubbleData.nodes) :
            bubbleData.nodes[i].validRounds
              <= Cardinality(AssignedPositions(rawData, hwNames, bubbleData.nodes[i].id))
    /\ pc = "click" =>
         \A h \in 1..Len(clicked.reactions) :
            clicked.reactions[h].handler.stats =>
                /\ "studentStats" \in DOMAIN clicked.reactions[h]
                /\ clicked.reactions[h].studentStats.validReviews <= AllRoundsCount(rawData)

(***************************************************************************)
(* Claims about the render adapter.                                        *)
(***************************************************************************)
\* the calls of a render call that update the data and the options of the instance
DataCalls(calls) == SelectSeq(calls, LAMBDA c : c \notin {"on:click", "off:click"})

InPlaceOrder ==
    <<"setOptions:physicsOff", "setData:empty", "setData", "setOptions:physicsOn", "redraw">>

\* the render call just made left the data of that call in the instance
HoldsLatestData ==
    /\ pc = "generateGraph" => networkInstance = generateGraph(rawData, mode, hwNames)
    /\ pc = "generateAllLabelsGraph" =>
         \E xs \in [1..Len(graph.nodes) -> XPositions] :
            networkInstance = generateAllLabelsGraph(rawData, hwNames, xs)

\* C20: over any sequence of render calls the instance is constructed at most once;
\* every call made while an instance exists makes exactly these calls on it, in this
\* order: physics off, data cleared, new data set, options with physics on, redraw;
\* and after each call the instance holds the data of that call.
C20_Original ==
    /\ [](constructions <= 1)
    /\ [](pc # "start" => HoldsLatestData)
    /\ [][networkInstance # None => DataCalls(instanceCalls') = InPlaceOrder]_vars

(***************************************************************************)
(* Claims about the click handler.                                         *)
(***************************************************************************)
\* the records of the selected homework keys whose Reviewer is n, in the order of
\* the selection and of the data
RecordsReviewedBy(n, selectedHWs) ==
    Flatten([k \in 1..Len(selectedHWs) |->
                SelectSeq(HwAssignments(rawData, selectedHWs[k]),
                          LAMBDA r : "Reviewer" \in DOMAIN r /\ r.Reviewer = n)])

\* C21: after any sequence of render calls, a click on the node n surfaces exactly
\* the raw records whose Reviewer is n, taken from the homework keys selected at the
\* time of the click, and exactly one click handler reacts.
C21_Original ==
    pc = "click" =>
        /\ Len(clicked.reactions) = 1
        /\ clicked.reactions[1].reviewerRecords
             = RecordsReviewedBy(clicked.nodeId, clicked.selectedHWs)

\* C22: window.networkInstance is created and mutated only inside
\* updateNetworkInstance: every render call constructs the instance, registers
\* handlers and calls setData / setOptions exactly as updateNetworkInstance does with
\* the data of that call, and no other call site does.
C22_Original ==
    [][LET w == updateNetworkInstance(Window, networkInstance', build)
       IN  /\ instanceCalls' = w.calls
           /\ constructions' = w.constructions
           /\ clickHandlers' = w.handlers
           /\ \A h \in 1..Len(clickHandlers') :
                clickHandlers'[h].registeredBy = "updateNetworkInstance"]_vars

(***************************************************************************)
(* Claims about a missing render target.                                   *)
(***************************************************************************)
\* the step is a call of a render entry point whose target element is absent
TargetAbsent ==
    \/ pc' \in {"generateGraph", "generateAllLabelsGraph"} /\ ~container
    \/ pc' = "drawReviewerChart" /\ ~reviewerCanvas

\* C23: with the render target absent, generateGraph, generateAllLabelsGraph and
\* drawReviewerChart log an error and return without throwing and without side
\* effects: no aggregation runs, no network or chart instance is created, and an
\* existing instance is left unchanged.
C23_Original ==
    [][TargetAbsent =>
        /\ loggedError'
        /\ thrown' = "none"
        /\ instanceCalls' = <<>>
        /\ UNCHANGED <<graph, networkInstance, clickHandlers, constructions,
                       reviewerCharts>>]_vars

(***************************************************************************)
(* Claims about the page script.                                           *)
(***************************************************************************)
FetchFailed == fetchState \in {"rejected", "notOk"}

\* nothing was ever rendered: no graph, no network instance, no bubble chart data
NeverRendered ==
    /\ mode = "none"
    /\ graph = None
    /\ networkInstance = None
    /\ constructions = 0
    /\ bubbleData = None

C25_Original ==
    (networkInstance # None /\ bubbleData # None) =>
        \A i \in 1..Len(networkInstance.nodes) :
            \A j \in 1..Len(bubbleData.nodes) :
                bubbleData.nodes[j].id = networkInstance.nodes[i].id =>
                    networkInstance.nodes[i].completionRate
                      = RatDiv(Num(bubbleData.nodes[j].validComments),
                               Num(bubbleData.nodes[j].assignedTasks))

(***************************************************************************)
(* Claims about the all-labels rendering.                                  *)
(***************************************************************************)
\* x is a number between lo and hi
InRange(x, lo, hi) == ~isNaN(x) /\ RatLe(Num(lo), x) /\ RatLe(x, Num(hi))

\* the nodes are in the order colorDepth descending, then meaningfulScore descending
InSortOrder(nodes) ==
    \A i \in 1..Len(nodes) - 1 :
        \/ nodes[i].colorDepth > nodes[i + 1].colorDepth
        \/ /\ nodes[i].colorDepth = nodes[i + 1].colorDepth
           /\ RatLe(nodes[i + 1].meaningfulScore, nodes[i].meaningfulScore)

\* C26: in generateAllLabelsGraph every node of a non-empty node set, a single node
\* and nodes of equal meaningfulScore included, gets a numeric size
\* 5 + 25 * (meaningfulScore - min) / (max - min) in [5, 30] and a y position in
\* [-200, 200] that does not decrease in the order colorDepth descending, then
\* meaningfulScore descending.
C26_Original ==
    pc = "generateAllLabelsGraph" =>
        LET nodes == networkInstance.nodes
        IN  /\ InSortOrder(nodes)
            /\ \A i \in 1..Len(nodes) :
                /\ InRange(nodes[i].value, 5, 30)
                /\ InRange(nodes[i].y, -200, 200)
                /\ i > 1 => RatLe(nodes[i - 1].y, nodes[i].y)

\* C27: once data is loaded, after every updateGraphMode(mode, hwNames) call with one
\* of the four modes, currentMode is mode, currentHW is a copy of hwNames, exactly
\* the switch button of the mode is active (index 0/1/2/3 for all / relevance /
\* concreteness / constructive) and the graph was generated for (mode, hwNames); a
\* call that omits hwNames leaves currentHW as it was.
C27_UpdateGraphMode ==
    [][(pc' = "updateGraphMode" /\ rawData # NoRawData) =>
        LET m == callArgs'.mode
            arg == [type |-> "array", v |-> callArgs'.hwNames]
        IN  /\ currentMode' = m
            /\ currentHW' = callArgs'.hwNames
            /\ activeButtons' = {CHOOSE i \in 0..3 :
                                    <<"all", "relevance", "concreteness", "constructive">>[i + 1] = m}
            /\ graph' = processReviewerData(rawData, m, arg)
            /\ networkInstance' = generateGraph(rawData, m, arg)
            /\ callArgs'.omitted => currentHW' = currentHW]_vars

\* a call that omits hwNames switched to concreteness with HW2 as the selection, and
\* another button was active before
C27_Witness ==
    /\ pc = "updateGraphMode"
    /\ rawData # NoRawData
    /\ callArgs.omitted
    /\ callArgs.mode = "concreteness"
    /\ currentHW = <<"HW2">>
    /\ activeButtons = {2}
    /\ Len(graph.nodes) > 0

\* the GO click found no homework selected: an alert, and nothing changes
GoWithoutSelection ==
    /\ alerted'
    /\ UNCHANGED <<currentHW, currentMode, mode, hwNames, graph, networkInstance,
                   constructions, bubbleData, activeButtons>>

\* the GO click regenerated the graph for the selection in the current mode
GoRegenerates ==
    LET arg == [type |-> "array", v |-> hwSelect]
    IN  /\ ~alerted'
        /\ currentHW' = hwSelect
        /\ currentMode' = currentMode
        /\ mode' = currentMode
        /\ hwNames' = arg
        /\ graph' = processReviewerData(rawData, currentMode, arg)
        /\ networkInstance' = generateGraph(rawData, currentMode, arg)

\* C28: a click on GO with no homework selected shows an alert and changes nothing;
\* with a selection it sets currentHW to the selection and regenerates the graph in
\* the unchanged current mode.
C28_Original ==
    [][pc' = "go" => IF hwSelect = <<>> THEN GoWithoutSelection ELSE GoRegenerates]_vars

\* C28 as amended: a click on GO with no homework selected shows an alert and changes
\* nothing; with a selection it sets currentHW to the selection, keeps the current
\* mode and, when the data is loaded, regenerates the graph in that mode; while
\* rawData is null nothing is generated.
C28_Go ==
    [][pc' = "go" =>
        IF hwSelect = <<>> THEN GoWithoutSelection
        ELSE IF rawData # NoRawData THEN GoRegenerates
        ELSE /\ ~alerted'
             /\ currentHW' = hwSelect
             /\ UNCHANGED <<currentMode, mode, hwNames, graph, networkInstance,
                            constructions, bubbleData, activeButtons>>]_vars

\* GO was clicked with HW2 selected on a loaded page in the mode relevance
C28_Witness ==
    /\ pc = "go"
    /\ ~alerted
    /\ rawData # NoRawData
    /\ currentMode = "relevance"
    /\ currentHW = <<"HW2">>
    /\ mode = "relevance"
    /\ Len(graph.nodes) > 0

(***************************************************************************)
(* Claims about the chart buttons.                                         *)
(***************************************************************************)
\* C29: a Generate button is disabled from the start of a generation until it
\* finishes, so no second generation of the same chart starts while one is in
\* flight, and every started generation eventually re-enables the button and
\* restores its label, whether it succeeds, returns nothing or throws.
C29_Generate ==
    /\ [](\A c \in Charts :
            /\ inFlight[c] <= 1
            /\ inFlight[c] = 1 => generateBtn[c].disabled
            /\ inFlight[c] = 0 =>
                    generateBtn[c] = [disabled |-> FALSE, textContent |-> GenerateLabel[c]])
    /\ \A c \in Charts :
            (inFlight[c] > 0) ~>
                (inFlight[c] = 0 /\ ~generateBtn[c].disabled
                    /\ generateBtn[c].textContent = GenerateLabel[c])

\* a generation of the valid-comments chart threw while one of the other chart
\* was in flight, and the button is enabled again
C29_Witness ==
    /\ pc = "generated"
    /\ loggedError
    /\ inFlight = [all |-> 1, valid |-> 0]
    /\ generateBtn["all"].disabled
    /\ ~generateBtn["valid"].disabled

\* C30: in every reachable state of the chart buttons a Download button is enabled
\* only if the current chart of that button is a generated, non-null chart, after
\* any sequence of successful, null-returning and failing generations.
C30_Original ==
    \A c \in Charts : ~downloadBtn[c].disabled => currentChart[c] = "chart"

====
